---- MODULE Spec2Model ----
(***************************************************************************)
(* Host orchestration / buzzer engine of cshape/jeopardy-ai.                *)
(*                                                                         *)
(* The program is one asyncio event loop.  Every coroutine (a websocket    *)
(* handler of main.py, the reconciliation loop, a timeout task, a task     *)
(* made by asyncio.create_task) is a process whose position is the list   *)
(* of operations it still has to run (its continuation).  A step runs a   *)
(* process from where it is suspended up to its next await that suspends.  *)
(* The operations carry the names of the functions of the source.          *)
(***************************************************************************)
EXTENDS Integers, Sequences, FiniteSets, TLC

\* ------------------------------------------------------------------ data

Players == {"p1", "p2", "p3"}
Admin == "admin"
Conns == Players \cup {Admin}
\* one more name that asks to join, over the connection of the administrator's
\* browser
Guest == "p4"
None == "none"

\* GameService.REQUIRED_PLAYERS and GameState.expected_player_count
REQUIRED_PLAYERS == 3

\* The board: clue 1 is a regular clue, clue 2 a daily double.  0 is "no
\* question"; BadClue is a category/value that find_question does not find.
Clues == {1, 2}
NoQ == 0
BadClue == 1 + Cardinality(Clues)
DailyDouble(c) == c = 2
ClueValue(c) == 200 * c
\* the text of a clue, by which the host remembers what it has read
ClueText(c) == <<"text", c>>
\* a wager handle_daily_double_bet accepts (5 <= bet <= max(1000, score))
Bet == 5

\* BuzzerManager._processed_audio_ids: more than 100 ids are cut down to 50;
\* GameService.completed_audio_ids: more than 100 are cut down to 100
PROCESSED_LIMIT == 100
PROCESSED_KEPT == 50
COMPLETED_LIMIT == 100
\* synthesize_and_play_speech trims its set of recent file names when it
\* holds more than 20, by the 10 oldest
RECENT_LIMIT == 20
RECENT_DROPPED == 10
\* process_audio_queue waits at most 30 seconds for the report of a clip
max_wait_time == 30

\* the clips of a game that has filled the history of processed ids
LongClips == PROCESSED_LIMIT

\* bounds of the exploration
MaxClips == 5
OpenChats == 2
OpenBuzzes == 2
AudioChats == 2
AudioBuzzes == 2
AudioCompletions == 1
LongChats == 1
LongBuzzes == 2
LongCompletions == 1
MaxSeconds == 3
SpeechCalls == 3
MaxSignals == 2
BoardDisplays == 2
BoardDismissals == 1
BoardCompletions == 1
ConsumerChats == 1
ConsumerBuzzes == 1
ConsumerCompletions == 1
ClueChats == 2
ClueBuzzes == 1
ClueCompletions == 2
LateChats == 2
LateBuzzes == 2
LateCompletions == 2
RaceChats == 1
RaceBuzzes == 1
RaceCompletions == 1
\* largest count kept of the buzz and answer_timer_start broadcasts
MaxSent == 2

\* ------------------------------------------------------------ operations

Op(n) == [op |-> n, i |-> 0, p |-> None, x |-> 0, b |-> FALSE]
OpI(n, i) == [op |-> n, i |-> i, p |-> None, x |-> 0, b |-> FALSE]
OpP(n, i, p) == [op |-> n, i |-> i, p |-> p, x |-> 0, b |-> FALSE]
OpX(n, i, p, x, b) == [op |-> n, i |-> i, p |-> p, x |-> x, b |-> b]
\* an await: "bcast" is ConnectionManager.broadcast_message, "sleep" is
\* asyncio.sleep, "llm" a call of the judge, the resolver or the generator
Aw(kind) == [op |-> "await", i |-> 0, p |-> kind, x |-> 0, b |-> FALSE]

\* A suspended process: k is what it still has to run, at the await it is
\* suspended in, n its place among the processes that wait for the clients'
\* sockets inside a broadcast (0: it is not waiting there).
NoTask == [k |-> <<>>, at |-> "none", n |-> 0]
Idle == [k |-> <<>>, at |-> "none", n |-> 0]

R(w, push) == [w |-> w, push |-> push]


\* ------------------------------------------------------------ the world
\* A world w is the whole program state while one process runs:
\*   w.gs   GameService            w.bm[1]  GameService.buzzer_manager
\*   w.gsm  host GameStateManager  w.bm[2]  AIHostService.buzzer_manager
\*   w.am   AudioManager           w.sp     tasks made by asyncio.create_task
\*   w.zs   timeout tasks that are still running but no longer referenced
\*   w.g    history of the run (observers only, never read by an operation)
\*   w.self the running process, w.mc its pending cancellation (Task.cancel
\*          on the running task), w.ret the value its await returned, w.sus
\*          whether a broadcast it awaits with a cancellation pending suspends,
\*          w.slow whether the clients' sockets make broadcasts suspend

Range(s) == {s[j] : j \in 1..Len(s)}

Slot(w, i, kind) == IF kind = "b" THEN w.bm[i].btask ELSE w.bm[i].atask

SetSlot(w, i, kind, t) ==
  IF kind = "b" THEN [w EXCEPT !.bm[i].btask = t] ELSE [w EXCEPT !.bm[i].atask = t]

\* asyncio.Task.cancel() followed by dropping the reference.  A task asleep
\* in asyncio.sleep ends with CancelledError.  A task suspended inside
\* broadcast_message is inside `try: await send_json() except:`: the bare
\* except swallows the CancelledError and the task goes on, unreferenced,
\* with the next connection of the broadcast (it no longer waits its turn).
\* Cancelling the running task itself leaves the cancellation pending.
TaskCancel(w, i, kind) ==
  LET t == Slot(w, i, kind) IN
  IF t = NoTask THEN w
  ELSE IF w.self = <<kind, i>>
    THEN SetSlot([w EXCEPT !.mc = TRUE, !.self = <<"z", 0>>], i, kind, NoTask)
  ELSE IF t.at = "bcast"
    THEN SetSlot([w EXCEPT !.zs = @ \cup {[kind |-> kind, i |-> i, k |-> t.k, at |-> t.at]}],
                 i, kind, NoTask)
  ELSE SetSlot(w, i, kind, NoTask)

cancel_timeout(w, i) == TaskCancel(w, i, "b")

start_timeout(w, i) ==
  SetSlot(cancel_timeout(w, i), i, "b",
          [k |-> <<OpI("handle_timeout", i)>>, at |-> "sleep", n |-> 0])

cancel_answer_timeout(w, i) == TaskCancel(w, i, "a")

start_answer_timeout(w, i, p) ==
  SetSlot(cancel_answer_timeout(w, i), i, "a",
          [k |-> <<OpP("handle_answer_timeout", i, p)>>, at |-> "sleep", n |-> 0])

\* AudioManager.synthesize_and_play_speech.  The file name is
\* question_audio_<int(time.time())>.wav: a request in the same second as an
\* earlier one is skipped as a duplicate; am.recent_now says that the current
\* second already has a request (older names never match again).  The queue
\* holds the url of the file; the model keeps the kind of speech in its place
\* (no operation reads it).
synthesize_and_play_speech(w, kind) ==
  IF w.am.recent_now THEN w
  ELSE [w EXCEPT !.am.recent_now = TRUE, !.am.queue = Append(@, kind)]

\* ------------------------------------------------- BuzzerManager (host)

activate_buzzer(w, o) ==
  IF ~w.bm[o.i].active
  THEN R([w EXCEPT !.bm[o.i].active = TRUE, !.gsm.active = TRUE, !.gs.active = TRUE,
                   !.g.accepted = 0],
         <<Aw("bcast"), OpI("start_timeout", o.i)>>)
  ELSE R(w, <<>>)

\* deactivate_buzzer that leaves GameService.buzzer_active as it is
deactivate_buzzer_host_only(w, o) ==
  IF w.bm[o.i].active
  THEN R([w EXCEPT !.bm[o.i].active = FALSE, !.gsm.active = FALSE],
         <<Aw("bcast"), OpI("cancel_timeout", o.i)>>)
  ELSE R(w, <<>>)

deactivate_buzzer(w, o) ==
  IF w.bm[o.i].active
  THEN R([w EXCEPT !.bm[o.i].active = FALSE, !.gsm.active = FALSE, !.gs.active = FALSE],
         <<Aw("bcast"), OpI("cancel_timeout", o.i)>>)
  ELSE R(w, <<>>)

handle_question_display(w, o) ==
  R(w, <<OpI("deactivate_buzzer", o.i), OpI("handle_question_display_2", o.i)>>)

handle_question_display_2(w, o) ==
  R(cancel_answer_timeout([w EXCEPT !.bm[o.i].incorrect = {}, !.bm[o.i].last = None], o.i), <<>>)

\* the n largest elements of a set of numbers
Latest(s, n) == {y \in s : Cardinality({z \in s : z > y}) < n}

\* _processed_audio_ids after `if len(ids) > 100: ids = set(list(ids)[-50:])`.
\* The order of list(set) is not defined: the id just added (x) is among the
\* last 50 or it is not (ord); of the other ids the model keeps the latest.
TrimProcessed(s, x, ord) ==
  IF Cardinality(s) <= PROCESSED_LIMIT THEN s
  ELSE IF ord = "kept" THEN {x} \cup Latest(s \ {x}, PROCESSED_KEPT - 1)
  ELSE Latest(s \ {x}, PROCESSED_KEPT)

\* o.x is the id reported, o.b says that it contains "incorrect", o.p where
\* list(set) puts it when the history is trimmed
handle_audio_completed(w, o) ==
  IF o.x \in w.bm[o.i].processed THEN R(w, <<>>)
  ELSE LET w1 == [w EXCEPT !.bm[o.i].processed = TrimProcessed(@ \cup {o.x}, o.x, o.p)]
           act == <<OpI("activate_buzzer", o.i), Op("gsm_buzzer_active")>>
       IN
       IF o.b /\ w1.bm[o.i].expecting
       THEN LET w2 == [w1 EXCEPT !.bm[o.i].expecting = FALSE] IN
            IF w2.gs.cq # NoQ
            THEN IF Cardinality(w2.bm[o.i].incorrect) < Cardinality(w2.gsm.names)
                 THEN R(w2, act)
                 ELSE R(w2, <<Op("dismiss_question")>>)
            ELSE R(w2, <<>>)
       ELSE IF w1.bm[o.i].expecting /\ w1.gs.cq # NoQ
       THEN R([w1 EXCEPT !.bm[o.i].expecting = FALSE], act)
       ELSE IF w1.gs.cq # NoQ /\ w1.gs.last = None
       THEN R([w1 EXCEPT !.bm[o.i].incorrect = {}, !.gsm.incorrect = {}], act)
       ELSE R(w1, <<>>)

gsm_buzzer_active(w, o) == R([w EXCEPT !.gsm.active = TRUE], <<>>)

handle_player_buzz(w, o) ==
  R([w EXCEPT !.bm[o.i].last = o.p],
    <<OpI("deactivate_buzzer", o.i), OpP("handle_player_buzz_2", o.i, o.p)>>)

handle_player_buzz_2(w, o) ==
  LET w1 == cancel_timeout(w, o.i)
      w2 == [w1 EXCEPT !.gsm.buzzed = o.p, !.gsm.active = FALSE, !.gs.last = o.p,
                       !.g.tres = None, !.g.sent = IF @ < MaxSent THEN @ + 1 ELSE @]
  IN R(start_answer_timeout(w2, o.i, o.p), <<Aw("bcast")>>)

\* handle_incorrect_answer that goes on as if players remained
handle_incorrect_answer_no_cover(w, o) ==
  LET w1 == cancel_answer_timeout(w, o.i)
      w2 == [w1 EXCEPT !.bm[o.i].incorrect = @ \cup {o.p},
                       !.gsm.incorrect = @ \cup {o.p},
                       !.gsm.gs_incorrect = @ \cup {o.p},
                       !.bm[o.i].last = None,
                       !.bm[o.i].expecting = TRUE,
                       !.g.wrong = @ \cup {o.p}]
  IN IF Cardinality(w2.bm[o.i].incorrect) >= Cardinality(w2.gsm.names)
     THEN R([w2 EXCEPT !.g.covered = TRUE], <<>>)
     ELSE R(w2, <<>>)

handle_incorrect_answer(w, o) ==
  LET w1 == cancel_answer_timeout(w, o.i)
      w2 == [w1 EXCEPT !.bm[o.i].incorrect = @ \cup {o.p},
                       !.gsm.incorrect = @ \cup {o.p},
                       !.gsm.gs_incorrect = @ \cup {o.p},
                       !.bm[o.i].last = None,
                       !.bm[o.i].expecting = TRUE,
                       !.g.wrong = @ \cup {o.p}]
  IN IF Cardinality(w2.bm[o.i].incorrect) >= Cardinality(w2.gsm.names)
     THEN R([w2 EXCEPT !.bm[o.i].expecting = FALSE, !.g.covered = TRUE],
            <<Op("dismiss_question"), Op("handle_incorrect_answer_2")>>)
     ELSE R(w2, <<>>)

handle_incorrect_answer_2(w, o) ==
  IF w.gsm.control # None
  THEN R(w, <<Aw("sleep"), OpP("send_chat_message", 0, w.gsm.control)>>)
  ELSE R(w, <<>>)

handle_correct_answer(w, o) ==
  R(cancel_answer_timeout(w, o.i),
    <<OpI("deactivate_buzzer", o.i), OpP("handle_correct_answer_2", o.i, o.p)>>)

handle_correct_answer_2(w, o) ==
  R([cancel_timeout(w, o.i) EXCEPT !.gsm.control = o.p], <<>>)

\* the contestant handle_timeout gives control to when nobody has it: the
\* first one, in registration order, with the strictly highest score
BestPlayer(w) ==
  LET reg == w.gs.reg
      best == {j \in 1..Len(reg) :
                 /\ \A m \in 1..Len(reg) : w.gs.score[reg[m]] <= w.gs.score[reg[j]]
                 /\ \A m \in 1..(j - 1) : w.gs.score[reg[m]] < w.gs.score[reg[j]]}
  IN IF best = {} THEN None ELSE reg[CHOOSE j \in best : TRUE]

handle_timeout(w, o) ==
  IF w.gs.cq # NoQ /\ w.gs.last = None
  THEN R([w EXCEPT !.g.tmo = "run"],
         <<Aw("bcast"), OpI("handle_timeout_2", o.i)>>)
  ELSE R(w, <<>>)

handle_timeout_2(w, o) ==
  R(synthesize_and_play_speech(w, "reveal"),
    <<Op("dismiss_question"), OpI("handle_timeout_3", o.i)>>)

handle_timeout_3(w, o) ==
  IF w.gsm.control # None
  THEN R(w, <<Aw("sleep"), OpP("send_chat_message", 1, w.gsm.control)>>)
  ELSE LET best == BestPlayer(w) IN
       IF best # None
       THEN R([w EXCEPT !.gsm.control = best],
              <<Aw("sleep"), OpP("send_chat_message", 1, best)>>)
       ELSE R([w EXCEPT !.g.tmo = "done"], <<>>)

\* handle_answer_timeout that does not look at who holds the buzz
handle_answer_timeout_unguarded(w, o) ==
  IF w.gs.cq # NoQ /\ w.gs.last = o.p /\ w.bm[o.i].last = o.p
  THEN R([w EXCEPT !.g.exp = TRUE],
         <<Aw("bcast"), OpP("handle_answer_timeout_2", o.i, o.p)>>)
  ELSE R([w EXCEPT !.g.stale = ~@, !.g.exp = TRUE],
         <<Aw("bcast"), OpP("handle_answer_timeout_2", o.i, o.p)>>)

\* after asyncio.sleep(answer_timeout_seconds).  g.stale changes each time
\* the expiry finds that its player no longer holds the buzz.
handle_answer_timeout(w, o) ==
  IF w.gs.cq # NoQ /\ w.gs.last = o.p /\ w.bm[o.i].last = o.p
  THEN R([w EXCEPT !.g.exp = TRUE],
         <<Aw("bcast"), OpP("handle_answer_timeout_2", o.i, o.p)>>)
  ELSE R([w EXCEPT !.g.stale = ~@], <<>>)

handle_answer_timeout_2(w, o) ==
  R(synthesize_and_play_speech(w, "timeup"),
    <<Aw("bcast"), OpP("handle_answer_timeout_3", o.i, o.p)>>)

handle_answer_timeout_3(w, o) ==
  R([w EXCEPT !.g.tres = o.p], <<OpP("handle_incorrect_answer", o.i, o.p)>>)

\* ChatProcessor.send_chat_message of a "select the next clue" prompt; o.i = 1
\* when it is the last statement of handle_timeout
send_chat_message(w, o) ==
  IF o.i = 1
  THEN R([w EXCEPT !.g.tmo = "done"], <<>>)
  ELSE R(w, <<>>)

\* ------------------------------------------------------------ GameService

\* asyncio.create_task(coroutine): the task starts at a later step
Spawn(w, k) == [w EXCEPT !.sp = Append(@, [k |-> k, at |-> "new", n |-> 0])]

find_question(w, c) == w.gs.board /\ c \in Clues

all_questions_answered(w) == w.gs.board /\ w.gs.used = Clues

register_player(w, o) ==
  IF o.p \in Range(w.gs.reg) THEN R(w, <<>>)
  ELSE R([w EXCEPT !.gs.reg = Append(@, o.p)], <<Aw("bcast"), Op("register_player_2")>>)

\* the game_ready message goes to the clients: g.readied counts them,
\* g.early says that one went out with fewer players than the quota
game_ready_signal(w) ==
  [w EXCEPT !.g.readied = IF @ < MaxSignals THEN @ + 1 ELSE @,
            !.g.early = @ \/ Len(w.gs.reg) < REQUIRED_PLAYERS]

register_player_2(w, o) ==
  IF Len(w.gs.reg) >= REQUIRED_PLAYERS
  THEN R(game_ready_signal([w EXCEPT !.gs.ready = TRUE]), <<Aw("bcast")>>)
  ELSE R(w, <<>>)

select_board(w, o) ==
  R([w EXCEPT !.gs.ready = TRUE, !.gs.board = TRUE, !.gs.used = {}], <<>>)

display_question(w, o) ==
  IF ~w.gs.ready THEN R(w, <<Aw("bcast")>>)
  ELSE IF ~find_question(w, o.x) THEN R(w, <<>>)
  ELSE LET w1 == [w EXCEPT !.gs.used = @ \cup {o.x}, !.gs.last = None,
                           !.gs.active = FALSE, !.gs.cq = o.x,
                           !.gs.val = ClueValue(o.x),
                           !.g.covered = FALSE, !.g.cc = None, !.g.ci = None,
                           !.g.exp = FALSE, !.g.seen = FALSE, !.g.narr = 0,
                           !.g.wrong = {}]
       IN IF DailyDouble(o.x)
          THEN R(w1, <<Aw("bcast")>>)
          ELSE R(w1, <<OpI("handle_question_display", 1), Aw("bcast")>>)

dismiss_question(w, o) ==
  R([w EXCEPT !.gs.active = FALSE],
    <<OpI("deactivate_buzzer", 1), Aw("bcast"), Op("dismiss_question_2")>>)

dismiss_question_2(w, o) ==
  R([w EXCEPT !.gs.cq = NoQ, !.gs.val = 0, !.gs.last = None], <<>>)

\* handle_buzz without its buzzer_active test
handle_buzz_unchecked(w, o) ==
  IF o.p \notin Range(w.gs.reg) THEN R(w, <<>>)
  ELSE R([w EXCEPT !.g.accepted = IF @ < 2 THEN @ + 1 ELSE @],
         <<OpP("handle_player_buzz", 1, o.p), Op("broadcast_buzz")>>)

handle_buzz(w, o) ==
  IF o.p \notin Range(w.gs.reg) THEN R(w, <<>>)
  ELSE IF ~w.gs.active THEN R(w, <<>>)
  ELSE R([w EXCEPT !.g.accepted = IF @ < 2 THEN @ + 1 ELSE @],
         <<OpP("handle_player_buzz", 1, o.p), Op("broadcast_buzz")>>)

\* the BUZZER_TOPIC broadcast that ends handle_buzz
broadcast_buzz(w, o) == R([w EXCEPT !.g.sent = IF @ < MaxSent THEN @ + 1 ELSE @], <<>>)

\* o.p is the named contestant (None: the last buzzer), o.b the verdict
answer_question(w, o) ==
  IF w.gs.cq = NoQ THEN R(w, <<>>)
  ELSE LET p == IF o.p = None THEN w.gs.last ELSE o.p IN
       IF p = None \/ p \notin Range(w.gs.reg) THEN R(w, <<>>)
       ELSE R(w, <<Aw("bcast"),
                   OpX("answer_question_2", IF DailyDouble(w.gs.cq) THEN 1 ELSE 0,
                       p, w.gs.val, o.b)>>)

answer_question_2(w, o) ==
  IF o.b
  THEN R([w EXCEPT !.gs.score[o.p] = @ + o.x],
         <<OpP("handle_correct_answer", 1, o.p), OpI("answer_question_3", o.i)>>)
  ELSE R([w EXCEPT !.gs.score[o.p] = @ - o.x],
         <<OpP("handle_incorrect_answer", 1, o.p), Aw("bcast")>>)

answer_question_3(w, o) ==
  IF o.i = 1 \/ all_questions_answered(w)
  THEN R(w, <<Op("dismiss_question"), Aw("bcast")>>)
  ELSE R(w, <<Aw("bcast")>>)

handle_daily_double_bet(w, o) ==
  IF w.gs.cq = NoQ \/ o.p \notin Range(w.gs.reg) THEN R(w, <<>>)
  ELSE R([w EXCEPT !.gs.val = Bet],
         <<Aw("bcast"), OpP("handle_daily_double_bet_2", 0, o.p)>>)

handle_daily_double_bet_2(w, o) == R([w EXCEPT !.gs.last = o.p], <<>>)

\* GameService.handle_audio_completed: mark_audio_completed hands the id to a
\* new task, then the same coroutine is awaited directly
\* (completed_audio_ids keeps the 100 ids with the latest timestamps)
mark_audio_completed(w, o) ==
  R(Spawn([w EXCEPT !.gs.completed = Latest(@ \cup {o.x}, COMPLETED_LIMIT)],
          <<OpX("handle_audio_completed", 1, o.p, o.x, o.b)>>),
    <<OpX("handle_audio_completed", 1, o.p, o.x, o.b)>>)

\* --------------------------------------------------------- GameFlowManager

\* g.quota: "no" until a tick sees the quota of players reached, "now" during
\* that tick, "past" from the next tick on
monitor_game_state(w, o) ==
  IF ~w.gsm.started
  THEN R([cancel_timeout(w, 2) EXCEPT !.g.quota = IF @ = "now" THEN "past" ELSE @],
         <<Op("check_game_start_conditions")>>)
  ELSE IF w.gs.cq # NoQ /\ w.gsm.cq = NoQ
  THEN LET w1 == [cancel_timeout(w, 2) EXCEPT !.gsm.cq = w.gs.cq, !.gsm.incorrect = {},
                                              !.g.seen = TRUE]
           w2 == IF ClueText(w.gs.cq) \in w1.gsm.read THEN w1
                 ELSE [synthesize_and_play_speech(w1, "question")
                         EXCEPT !.gsm.read = @ \cup {ClueText(w.gs.cq)},
                                !.g.narr = IF @ < 2 THEN @ + 1 ELSE @]
       IN R(w2, <<Op("monitor_game_state_2")>>)
  ELSE R([w EXCEPT !.g.seen = @ \/ w.gs.cq # NoQ], <<Op("monitor_game_state_2")>>)

monitor_game_state_2(w, o) ==
  IF w.gs.last # None /\ (w.gsm.buzzed = None \/ w.gs.last # w.bm[2].last)
  THEN R([w EXCEPT !.bm[2].last = w.gs.last, !.gsm.buzzed = w.gs.last],
         <<Aw("bcast"), Op("monitor_game_state_3")>>)
  ELSE R(w, <<Op("monitor_game_state_4")>>)

monitor_game_state_3(w, o) == R(cancel_timeout(w, 2), <<Op("monitor_game_state_4")>>)

monitor_game_state_4(w, o) ==
  LET w1 == IF w.gs.active /\ ~w.gsm.active
            THEN Spawn([w EXCEPT !.gsm.active = TRUE], <<OpI("activate_buzzer", 2)>>)
            ELSE IF ~w.gs.active /\ w.gsm.active
            THEN Spawn([w EXCEPT !.gsm.active = FALSE], <<OpI("deactivate_buzzer", 2)>>)
            ELSE w
      w2 == IF w1.gs.cq = NoQ /\ w1.gsm.cq # NoQ
            THEN cancel_timeout(
                   [Spawn([w1 EXCEPT !.gsm.cq = NoQ, !.gsm.incorrect = {},
                                     !.gsm.gs_incorrect = {}, !.bm[2].last = None],
                          <<OpI("deactivate_buzzer", 2)>>)
                      EXCEPT !.gsm.active = FALSE], 2)
            ELSE w1
      w3 == IF w2.gsm.cq = NoQ /\ w2.gs.cq = NoQ THEN cancel_timeout(w2, 2) ELSE w2
  IN R(w3, <<>>)

\* check_game_start_conditions without its test of welcome_completed
check_game_start_conditions_again(w, o) ==
  LET new == Range(w.gs.reg) \ w.gsm.names
      w1 == [w EXCEPT !.gsm.names = @ \cup new,
                      !.g.quota = IF @ = "no" /\ Len(w.gs.reg) >= REQUIRED_PLAYERS
                                  THEN "now" ELSE @]
      go == Len(w.gs.reg) >= REQUIRED_PLAYERS
      k == IF go THEN <<Op("welcome_players"), Op("check_game_start_conditions_2")>>
           ELSE <<>>
  IN IF new # {} THEN R(w1, <<Aw("bcast")>> \o k) ELSE R(w1, k)

check_game_start_conditions(w, o) ==
  LET new == Range(w.gs.reg) \ w.gsm.names
      w1 == [w EXCEPT !.gsm.names = @ \cup new,
                      !.g.quota = IF @ = "no" /\ Len(w.gs.reg) >= REQUIRED_PLAYERS
                                  THEN "now" ELSE @]
      go == Len(w.gs.reg) >= REQUIRED_PLAYERS /\ ~w.gsm.welcome
      k == IF go THEN <<Op("welcome_players"), Op("check_game_start_conditions_2")>>
           ELSE <<>>
  IN IF new # {} THEN R(w1, <<Aw("bcast")>> \o k) ELSE R(w1, k)

\* "Mark game as ready": the host sends game_ready after welcome_players
check_game_start_conditions_2(w, o) == R(game_ready_signal(w), <<Aw("bcast")>>)

\* g.welcomed counts the welcome messages
welcome_players(w, o) ==
  IF w.gsm.names = {} THEN R(w, <<>>)
  ELSE R([w EXCEPT !.g.welcomed = IF @ < MaxSignals THEN @ + 1 ELSE @,
                   !.g.early = @ \/ Len(w.gs.reg) < REQUIRED_PLAYERS],
         <<Aw("bcast"), Op("welcome_players_2")>>)

\* a welcome that leaves the generation of the board to a later tick
welcome_players_2_only(w, o) ==
  R([synthesize_and_play_speech(w, "welcome") EXCEPT !.gsm.welcome = TRUE], <<>>)

welcome_players_2(w, o) ==
  R([synthesize_and_play_speech(w, "welcome") EXCEPT !.gsm.welcome = TRUE],
    <<Op("generate_board_from_preferences")>>)

\* g.gen counts the starts of the generation, g.hasty says that one was in
\* the tick that first saw the quota reached
generate_board_from_preferences(w, o) ==
  LET w1 == [w EXCEPT !.g.gen = IF @ < MaxSignals THEN @ + 1 ELSE @,
                      !.g.hasty = @ \/ w.g.quota = "now"]
  IN IF ~w.gsm.genstarted
     THEN R(w1, <<Aw("bcast"), Op("generate_board_from_preferences_2")>>)
     ELSE R(w1, <<Aw("llm"), Op("generate_board_from_preferences_3")>>)

generate_board_from_preferences_2(w, o) ==
  R([w EXCEPT !.gsm.genstarted = TRUE],
    <<Aw("llm"), Op("generate_board_from_preferences_3")>>)

\* w.ret = 1: BoardManager generated a board and selected it; 0: it raised
generate_board_from_preferences_3(w, o) ==
  IF w.ret = 1
  THEN R([select_board(w, o).w EXCEPT !.gsm.started = TRUE],
         <<Aw("bcast"), Op("generate_board_from_preferences_4")>>)
  ELSE R(w, <<>>)

generate_board_from_preferences_4(w, o) ==
  R(synthesize_and_play_speech(w, "start"), <<Op("assign_first_player")>>)

\* player_names[0] of list(set): one element, the same for a given set
assign_first_player(w, o) ==
  IF w.gsm.names = {} THEN R(w, <<>>)
  ELSE R([w EXCEPT !.gsm.control = CHOOSE p \in w.gsm.names : TRUE],
         <<Aw("bcast"), Op("assign_first_player_2")>>)

assign_first_player_2(w, o) == R(synthesize_and_play_speech(w, "control"), <<>>)

\* ----------------------------------------------------------- ChatProcessor

\* helpers.is_same_player: equal, or one lower-cased name starts with or
\* contains the other.  No name of Players contains another one.
is_same_player(a, b) == a = b

\* a message that is neither an answer nor a selection
Noise(v, p) ==
  LET has_active_question == v.gsm.cq # NoQ \/ v.gs.cq # NoQ IN
  /\ ~(has_active_question /\ v.gsm.buzzed # None /\ is_same_player(p, v.gsm.buzzed))
  /\ ~(v.gsm.control # None /\ is_same_player(p, v.gsm.control) /\ ~has_active_question)

process_chat_message_anyone(w, o) ==
  LET has_active_question == w.gsm.cq # NoQ \/ w.gs.cq # NoQ IN
  IF has_active_question /\ w.gsm.buzzed # None
  THEN R(w, <<OpP("process_player_answer", 0, o.p)>>)
  ELSE IF w.gsm.control # None /\ is_same_player(o.p, w.gsm.control) /\ ~has_active_question
  THEN R(w, <<OpP("process_clue_selection", 0, o.p)>>)
  ELSE R(w, <<>>)

process_chat_message(w, o) ==
  LET has_active_question == w.gsm.cq # NoQ \/ w.gs.cq # NoQ IN
  IF has_active_question /\ w.gsm.buzzed # None /\ is_same_player(o.p, w.gsm.buzzed)
  THEN R(w, <<OpP("process_player_answer", 0, o.p)>>)
  ELSE IF w.gsm.control # None /\ is_same_player(o.p, w.gsm.control) /\ ~has_active_question
  THEN R(w, <<OpP("process_clue_selection", 0, o.p)>>)
  ELSE R(w, <<>>)

\* g.judged: the last message handed to the answer judge came from the
\* player who held the buzz on the current question of GameService
\* ("holder") or did not ("other")
process_player_answer(w, o) ==
  IF w.gsm.cq = NoQ THEN R(w, <<>>)
  ELSE R([w EXCEPT !.g.judged = IF w.gs.cq # NoQ /\ w.gs.last = o.p
                                THEN "holder" ELSE "other"],
         <<Aw("llm"), OpX("process_player_answer_2", 0, o.p,
                          w.gs.score[o.p] - w.gs.val, FALSE)>>)

\* AnswerEvaluator.evaluate_answer.  ret = 1: the judge says correct; 0: it
\* says incorrect, or the call raised, or its response is not JSON: both
\* except clauses return is_correct False
evaluate_answer(ret) == ret = 1

\* o.x, handed on to the end of the handler: the score the player has after
\* losing the value of the question, as of the moment of the message
process_player_answer_2(w, o) ==
  R(w, <<Aw("bcast"), OpX("process_player_answer_3", 0, o.p, o.x, evaluate_answer(w.ret))>>)

process_player_answer_3(w, o) ==
  R(synthesize_and_play_speech(w, IF o.b THEN "correct" ELSE "incorrect"),
    <<OpX("answer_question", 0, o.p, 0, o.b), OpX("process_player_answer_4", 0, o.p, o.x, o.b)>>)

process_player_answer_4(w, o) ==
  IF o.b
  THEN R(w, <<Op("dismiss_question"), OpP("process_player_answer_5", 0, o.p)>>)
  ELSE LET w1 == [w EXCEPT !.gsm.incorrect = @ \cup {o.p},
                           !.gsm.gs_incorrect = @ \cup {o.p},
                           !.gsm.buzzed = None, !.gs.last = None,
                           !.g.ci = o.p,
                           !.g.degraded = IF /\ o.p \in w.bm[1].incorrect
                                             /\ w.gs.score[o.p] = o.x
                                          THEN "ok" ELSE "bad"]
       IN IF w1.gs.cq # NoQ
          THEN R([w1 EXCEPT !.bm[1].expecting = TRUE], <<>>)
          ELSE R(w1, <<>>)

process_player_answer_5(w, o) ==
  R([w EXCEPT !.gsm.buzzed = None, !.gsm.cq = NoQ, !.gsm.incorrect = {},
              !.gsm.gs_incorrect = {}, !.gsm.control = o.p, !.g.cc = o.p],
    <<Aw("sleep"), OpP("send_chat_message", 0, o.p)>>)

\* ChatProcessor.process_clue_selection around ClueProcessor's: without a
\* board nothing is said; with a board that has no clue left the help
\* message is sent without asking the resolver.
\* g.resolver: the resolver was asked for a message of the player with
\* control while no view had a question ("ok") or otherwise ("bad")
process_clue_selection(w, o) ==
  IF ~w.gs.board THEN R(w, <<>>)
  ELSE IF Clues \ w.gs.used = {} THEN R(w, <<Aw("bcast")>>)
  ELSE R([w EXCEPT !.g.resolver =
                     IF @ # "bad" /\ o.p = w.gsm.control /\ w.gs.cq = NoQ /\ w.gsm.cq = NoQ
                     THEN "ok" ELSE "bad"],
         <<Aw("llm"), Op("process_clue_selection_2")>>)

\* an invalid selection that gets no answer
process_clue_selection_2_silent(w, o) ==
  IF w.ret = 0
  THEN R([w EXCEPT !.g.invalid = ~@], <<>>)
  ELSE R(w, <<OpX("display_question", 0, None, w.ret, FALSE)>>)

\* w.ret = 0: the resolver finds no valid selection, or its response is not
\* JSON, or the call raised: the help message with the categories is sent;
\* otherwise the clue it names.  g.invalid changes with every invalid
\* selection, g.help with every help message.
process_clue_selection_2(w, o) ==
  IF w.ret = 0
  THEN R([w EXCEPT !.g.invalid = ~@, !.g.help = ~@], <<Aw("bcast")>>)
  ELSE R(w, <<OpX("display_question", 0, None, w.ret, FALSE)>>)

\* ------------------------------------------------------------- processes

Step(w, o) ==
  CASE o.op = "activate_buzzer" -> activate_buzzer(w, o)
    [] o.op = "deactivate_buzzer" -> deactivate_buzzer(w, o)
    [] o.op = "start_timeout" -> R(start_timeout(w, o.i), <<>>)
    [] o.op = "cancel_timeout" -> R(cancel_timeout(w, o.i), <<>>)
    [] o.op = "handle_question_display" -> handle_question_display(w, o)
    [] o.op = "handle_question_display_2" -> handle_question_display_2(w, o)
    [] o.op = "handle_audio_completed" -> handle_audio_completed(w, o)
    [] o.op = "gsm_buzzer_active" -> gsm_buzzer_active(w, o)
    [] o.op = "handle_player_buzz" -> handle_player_buzz(w, o)
    [] o.op = "handle_player_buzz_2" -> handle_player_buzz_2(w, o)
    [] o.op = "handle_incorrect_answer" -> handle_incorrect_answer(w, o)
    [] o.op = "handle_incorrect_answer_2" -> handle_incorrect_answer_2(w, o)
    [] o.op = "handle_correct_answer" -> handle_correct_answer(w, o)
    [] o.op = "handle_correct_answer_2" -> handle_correct_answer_2(w, o)
    [] o.op = "handle_timeout" ->
         handle_timeout([w EXCEPT !.g.tfault = IF @ = "raised" THEN "fired" ELSE @], o)
    [] o.op = "handle_timeout_2" -> handle_timeout_2(w, o)
    [] o.op = "handle_timeout_3" -> handle_timeout_3(w, o)
    [] o.op = "handle_answer_timeout" ->
         handle_answer_timeout([w EXCEPT !.g.tfault = IF @ = "raised" THEN "fired" ELSE @], o)
    [] o.op = "handle_answer_timeout_2" -> handle_answer_timeout_2(w, o)
    [] o.op = "handle_answer_timeout_3" -> handle_answer_timeout_3(w, o)
    [] o.op = "send_chat_message" -> send_chat_message(w, o)
    [] o.op = "register_player" -> register_player(w, o)
    [] o.op = "register_player_2" -> register_player_2(w, o)
    [] o.op = "select_board" -> select_board(w, o)
    [] o.op = "display_question" -> display_question(w, o)
    [] o.op = "dismiss_question" -> dismiss_question(w, o)
    [] o.op = "dismiss_question_2" -> dismiss_question_2(w, o)
    [] o.op = "handle_buzz" -> handle_buzz(w, o)
    [] o.op = "broadcast_buzz" -> broadcast_buzz(w, o)
    [] o.op = "answer_question" -> answer_question(w, o)
    [] o.op = "answer_question_2" -> answer_question_2(w, o)
    [] o.op = "answer_question_3" -> answer_question_3(w, o)
    [] o.op = "handle_daily_double_bet" -> handle_daily_double_bet(w, o)
    [] o.op = "handle_daily_double_bet_2" -> handle_daily_double_bet_2(w, o)
    [] o.op = "mark_audio_completed" -> mark_audio_completed(w, o)
    [] o.op = "check_game_start_conditions_2" -> check_game_start_conditions_2(w, o)
    [] o.op = "monitor_game_state" ->
         monitor_game_state([w EXCEPT !.g.fault = IF @ = "raised" THEN "resumed" ELSE @], o)
    [] o.op = "monitor_game_state_2" -> monitor_game_state_2(w, o)
    [] o.op = "monitor_game_state_3" -> monitor_game_state_3(w, o)
    [] o.op = "monitor_game_state_4" -> monitor_game_state_4(w, o)
    [] o.op = "check_game_start_conditions" -> check_game_start_conditions(w, o)
    [] o.op = "welcome_players" -> welcome_players(w, o)
    [] o.op = "welcome_players_2" -> welcome_players_2(w, o)
    [] o.op = "generate_board_from_preferences" -> generate_board_from_preferences(w, o)
    [] o.op = "generate_board_from_preferences_2" -> generate_board_from_preferences_2(w, o)
    [] o.op = "generate_board_from_preferences_3" -> generate_board_from_preferences_3(w, o)
    [] o.op = "generate_board_from_preferences_4" -> generate_board_from_preferences_4(w, o)
    [] o.op = "assign_first_player" -> assign_first_player(w, o)
    [] o.op = "assign_first_player_2" -> assign_first_player_2(w, o)
    [] o.op = "process_chat_message" -> process_chat_message(w, o)
    [] o.op = "process_player_answer" -> process_player_answer(w, o)
    [] o.op = "process_player_answer_2" -> process_player_answer_2(w, o)
    [] o.op = "process_player_answer_3" -> process_player_answer_3(w, o)
    [] o.op = "process_player_answer_4" -> process_player_answer_4(w, o)
    [] o.op = "process_player_answer_5" -> process_player_answer_5(w, o)
    [] o.op = "process_clue_selection" -> process_clue_selection(w, o)
    [] o.op = "process_clue_selection_2" -> process_clue_selection_2(w, o)

\* the prompt that ends handle_timeout is among the operations left
PromptLeft(k) == \E j \in 1..Len(k) : k[j].op = "send_chat_message" /\ k[j].i = 1

\* Run a process from its continuation k to its next suspension or its end.
\* A broadcast suspends the process only when a client's socket is slow to
\* take the message (w.slow); otherwise send_json returns without yielding.
\* With a cancellation pending, asyncio.sleep raises CancelledError, which
\* ends handle_timeout and handle_answer_timeout (their except clause), and
\* a broadcast either returns without suspending or suspends and swallows it.
\* An await that nothing follows ends the process at once: what the others
\* do while it would be suspended they can do after it has ended.
\* (The result of an operation is bound by a set so that it is computed once.)
RECURSIVE Run(_, _)
Run(w, k) ==
  IF k = <<>> THEN [w |-> [w EXCEPT !.mc = FALSE], k |-> <<>>, at |-> "none"]
  ELSE LET o == Head(k) IN
    IF o.op = "await"
    THEN IF w.mc /\ o.p # "bcast"
         THEN [w |-> [w EXCEPT !.mc = FALSE,
                               !.g.tmo = IF PromptLeft(k) THEN "aborted" ELSE @],
               k |-> <<>>, at |-> "none"]
         ELSE IF (o.p = "bcast" /\ (~w.slow \/ (w.mc /\ ~w.sus))) \/ Tail(k) = <<>>
         THEN Run(w, Tail(k))
         ELSE [w |-> [w EXCEPT !.mc = FALSE], k |-> Tail(k), at |-> o.p]
    ELSE CHOOSE v \in {Run(r.w, r.push \o Tail(k)) : r \in {Step(w, o)}} : TRUE

\* ------------------------------------------------------------- the state

VARIABLES gs, bm, gsm, am, conn, mon, spawned, zombies, ahead, net, g

vars == <<gs, bm, gsm, am, conn, mon, spawned, zombies, ahead, net, g>>

gs0 == [reg |-> <<>>, score |-> [p \in Players \cup {Guest} |-> 0], ready |-> FALSE,
        board |-> FALSE, used |-> {}, cq |-> NoQ, val |-> 0, last |-> None,
        active |-> FALSE, completed |-> {}]

bm0 == [active |-> FALSE, last |-> None, incorrect |-> {}, expecting |-> FALSE,
        processed |-> {}, btask |-> NoTask, atask |-> NoTask]

gsm0 == [started |-> FALSE, welcome |-> FALSE, genstarted |-> FALSE, names |-> {},
         cq |-> NoQ, read |-> {}, buzzed |-> None, control |-> None,
         active |-> FALSE, incorrect |-> {}, gs_incorrect |-> {}]

\* am.kinds[id] is the kind of the clip sent for playback with id `id` (the
\* ids are audio_<milliseconds>: the model numbers them 1, 2, ...);
\* am.next is the id of the next one.  am.playing is the id the consumer is
\* waiting for (0: it is at the top of its loop), am.wait its wait_time,
\* am.late the ids it gave up waiting for.
am0 == [queue |-> <<>>, recent_now |-> FALSE, playing |-> 0, next |-> 1, kinds |-> <<>>,
        wait |-> 0, late |-> {}]

g0 == [accepted |-> 0, tres |-> None, covered |-> FALSE, cc |-> None, ci |-> None,
       exp |-> FALSE, stale |-> FALSE, tmo |-> "none", sent |-> 0,
       seen |-> FALSE, narr |-> 0, welcomed |-> 0, readied |-> 0, early |-> FALSE,
       quota |-> "no", gen |-> 0, hasty |-> FALSE, wrong |-> {},
       judged |-> "none", degraded |-> "none",
       resolver |-> "none", invalid |-> FALSE, help |-> FALSE,
       fault |-> "no", tfault |-> "no",
       left |-> [d |-> 0, b |-> 0, a |-> 0, x |-> 0, w |-> 0, c |-> 0, m |-> 0]]

Init ==
  /\ gs = gs0
  /\ bm = <<bm0, bm0>>
  /\ gsm = gsm0
  /\ am = am0
  /\ conn = [c \in Conns |-> Idle]
  /\ mon = Idle
  /\ spawned = <<>>
  /\ zombies = {}
  /\ ahead = FALSE
  /\ net \in {"fast", "slow"}
  /\ g = g0

World(self, ret, sus) ==
  [gs |-> gs, bm |-> bm, gsm |-> gsm, am |-> am, sp |-> spawned, zs |-> zombies,
   g |-> g, self |-> self, mc |-> FALSE, ret |-> ret, sus |-> sus,
   slow |-> net = "slow"]

\* The processes suspended inside a broadcast wait for the same sockets, in
\* the order of active_connections: they go on in the order in which they
\* were suspended.  Waiting is the set of their places; the process that
\* suspends gets the place after the last one, and the places are renumbered
\* from 1 when the step is over.
Waiting ==
  ({conn[c].n : c \in Conns} \cup {mon.n} \cup {spawned[j].n : j \in 1..Len(spawned)}
     \cup {bm[i].btask.n : i \in {1, 2}} \cup {bm[i].atask.n : i \in {1, 2}}) \ {0}

Suspended(r) ==
  [k |-> r.k, at |-> r.at, n |-> IF r.at = "bcast" THEN 1 + Cardinality(Waiting) ELSE 0]

Turn(t) == t.at = "bcast" => t.n = 1

Ranked(t, T) ==
  IF t.n = 0 THEN t ELSE [t EXCEPT !.n = Cardinality({m \in T : m <= t.n})]

\* the state after a step: the world w the running process leaves, and the
\* connections c1 and the reconciliation loop m1
Commit(w, c1, m1) ==
  \E T \in {({c1[c].n : c \in Conns} \cup {m1.n} \cup {w.sp[j].n : j \in 1..Len(w.sp)}
              \cup {w.bm[i].btask.n : i \in {1, 2}}
              \cup {w.bm[i].atask.n : i \in {1, 2}}) \ {0}} :
    /\ gs' = w.gs
    /\ bm' = [i \in {1, 2} |-> [w.bm[i] EXCEPT !.btask = Ranked(@, T),
                                                !.atask = Ranked(@, T)]]
    /\ gsm' = w.gsm
    /\ am' = w.am
    /\ g' = w.g
    /\ conn' = [c \in Conns |-> Ranked(c1[c], T)]
    /\ mon' = Ranked(m1, T)
    /\ spawned' = [j \in 1..Len(w.sp) |-> Ranked(w.sp[j], T)]
    /\ zombies' = w.zs
    /\ net' = net

Other == <<"x", 0>>

\* what an awaited call can return to the process suspended in t
RetVals(t) ==
  IF t.at # "llm" THEN {0}
  ELSE IF Head(t.k).op = "process_clue_selection_2" THEN {0, BadClue} \cup Clues
  ELSE {0, 1}

\* asyncio.create_task puts the first step of the new task on the loop's ready
\* queue: it runs before any process that becomes ready afterwards.  A process
\* whose wake-up was on the queue already runs before it: `ahead` says that
\* one has done so since the task was created.
NoNewTask == \A j \in 1..Len(spawned) : spawned[j].at # "new"

MayRun == NoNewTask \/ ~ahead

RanAhead == ahead' = ~NoNewTask

\* ---- a websocket connection: one message is handled at a time (main.py)

ConnStart(c, k0, g1) ==
  /\ conn[c].k = <<>>
  /\ MayRun
  /\ RanAhead
  /\ \E r \in {Run([World(Other, 0, TRUE) EXCEPT !.g = g1], k0)} :
       Commit(r.w, [conn EXCEPT ![c] = Suspended(r)], mon)

ConnResume(c) ==
  /\ conn[c].k # <<>>
  /\ Turn(conn[c])
  /\ MayRun
  /\ RanAhead
  /\ \E ret \in RetVals(conn[c]) :
       \E r \in {Run(World(Other, ret, TRUE), conn[c].k)} :
         Commit(r.w, [conn EXCEPT ![c] = Suspended(r)], mon)

\* The clients send a bounded number of messages of each kind: g.left says
\* how many more (d: displays, b: buzzes, a: verdicts, x: dismissals,
\* w: wagers, c: chat lines, m: audio completions).
Send(kind) == [g EXCEPT !.left[kind] = @ - 1]

Register(p) ==
  /\ p \notin Range(gs.reg)
  /\ ConnStart(p, <<OpP("register_player", 0, p)>>, g)

\* a fourth name registers
RegisterGuest ==
  /\ Guest \notin Range(gs.reg)
  /\ ConnStart(Admin, <<OpP("register_player", 0, Guest)>>, g)

SelectBoard ==
  /\ ~gs.board
  /\ ConnStart(Admin, <<Op("select_board")>>, g)

\* QUESTION_DISPLAY: display_question, then change_buzzer_status(True)
DisplayQuestion(c) ==
  /\ g.left.d > 0
  /\ ConnStart(Admin, <<OpX("display_question", 0, None, c, FALSE), OpI("activate_buzzer", 1)>>,
               Send("d"))

\* the daily_double topic: display_question only
DisplayDailyDouble(c) ==
  /\ g.left.d > 0
  /\ ConnStart(Admin, <<OpX("display_question", 0, None, c, FALSE)>>, Send("d"))

Buzz(p) ==
  /\ g.left.b > 0
  /\ ConnStart(p, <<OpP("handle_buzz", 0, p)>>, Send("b"))

Answer(b, p) ==
  /\ g.left.a > 0
  /\ ConnStart(Admin, <<OpX("answer_question", 0, p, 0, b)>>, Send("a"))

Dismiss ==
  /\ g.left.x > 0
  /\ ConnStart(Admin, <<Op("dismiss_question")>>, Send("x"))

DailyDoubleBet(p) ==
  /\ g.left.w > 0
  /\ ConnStart(p, <<OpP("handle_daily_double_bet", 0, p)>>, Send("w"))

Chat(p) ==
  /\ g.left.c > 0
  /\ ConnStart(p, <<OpP("process_chat_message", 0, p)>>, Send("c"))

\* a client reports the end of a clip it was told to play (the reports of
\* the other clients for the same clip find it processed and change nothing)
AudioComplete(c, id) ==
  /\ g.left.m > 0
  /\ id \in 1..(am.next - 1)
  /\ id \notin gs.completed
  /\ \E ord \in {"kept", "dropped"} :
       ConnStart(c, <<OpX("mark_audio_completed", 0, ord, id, FALSE)>>, Send("m"))

\* ---- AIHostService.run: monitor_game_state, then asyncio.sleep(1)

\* a loop that an exception of a tick has ended
Tick_unless_raised ==
  /\ g.fault # "raised"
  /\ mon.k = <<>>
  /\ NoNewTask
  /\ ahead' = FALSE
  /\ \E r \in {Run(World(Other, 0, TRUE), <<Op("monitor_game_state")>>)} :
       Commit(r.w, conn, Suspended(r))

\* AIHostService.run: monitor_game_state, then asyncio.sleep(1), for ever
Tick ==
  /\ mon.k = <<>>
  /\ NoNewTask
  /\ ahead' = FALSE
  /\ \E r \in {Run(World(Other, 0, TRUE), <<Op("monitor_game_state")>>)} :
       Commit(r.w, conn, Suspended(r))

MonResume ==
  /\ mon.k # <<>>
  /\ Turn(mon)
  /\ MayRun
  /\ RanAhead
  /\ \E ret \in RetVals(mon) :
       \E r \in {Run(World(Other, ret, TRUE), mon.k)} :
         Commit(r.w, conn, Suspended(r))

\* the code that follows an await of the tick raises an exception: the except
\* clause of monitor_game_state logs it and the tick returns, with what it did
\* so far left as it is (g.fault: "raised", then "resumed" once a later tick
\* has begun)
MonRaise ==
  /\ mon.k # <<>>
  /\ Turn(mon)
  /\ MayRun
  /\ RanAhead
  /\ g.fault = "no"
  /\ Commit([World(Other, 0, TRUE) EXCEPT !.g.fault = "raised"], conn, Idle)

\* ---- tasks

Without(s, j) == SubSeq(s, 1, j - 1) \o SubSeq(s, j + 1, Len(s))

\* a created task starts in creation order; a suspended one resumes any time
\* once the created ones have started
TaskStep(j) ==
  /\ j \in 1..Len(spawned)
  /\ IF spawned[j].at = "new" THEN \A m \in 1..(j - 1) : spawned[m].at # "new"
     ELSE MayRun /\ Turn(spawned[j])
  /\ ahead' = IF spawned[j].at = "new"
              THEN ahead /\ \E m \in 1..Len(spawned) : m # j /\ spawned[m].at = "new"
              ELSE ~NoNewTask
  /\ \E r \in {Run(World(Other, 0, TRUE), spawned[j].k)} :
       Commit([r.w EXCEPT !.sp = IF r.k = <<>> THEN Without(@, j)
                                 ELSE [@ EXCEPT ![j] = Suspended(r)]],
              conn, mon)

\* the world a task finds when its asyncio.sleep of 5 or 7 seconds is over:
\* the second in which the last clip was requested has passed
Slept(w, t) ==
  IF t.at = "sleep" THEN [w EXCEPT !.am.recent_now = FALSE] ELSE w

\* the task in a timeout slot wakes up (its sleep is over or its broadcast is
\* sent).  If it cancelled itself meanwhile it is no longer in its slot.
TimerStep(i, kind) ==
  /\ Slot(World(Other, 0, TRUE), i, kind) # NoTask
  /\ Turn(Slot(World(Other, 0, TRUE), i, kind))
  /\ MayRun
  /\ RanAhead
  /\ \E sus \in BOOLEAN :
       \E r \in {Run(Slept(World(<<kind, i>>, 0, sus), Slot(World(Other, 0, TRUE), i, kind)),
                     Slot(World(Other, 0, TRUE), i, kind).k)} :
         Commit(IF r.w.self = <<kind, i>>
                THEN SetSlot(r.w, i, kind, IF r.k = <<>> THEN NoTask ELSE Suspended(r))
                ELSE IF r.k = <<>> THEN r.w
                ELSE [r.w EXCEPT !.zs = @ \cup {[kind |-> kind, i |-> i,
                                                  k |-> r.k, at |-> r.at]}],
                conn, mon)

\* the code that follows an await of a timeout callback raises an exception:
\* the except clause of the callback logs it and the task is done (g.tfault:
\* "raised", then "fired" once a later timeout has run its callback)
TimerRaise(i, kind) ==
  /\ Slot(World(Other, 0, TRUE), i, kind) # NoTask
  /\ Turn(Slot(World(Other, 0, TRUE), i, kind))
  /\ MayRun
  /\ RanAhead
  /\ g.tfault = "no"
  /\ Commit(SetSlot([World(Other, 0, TRUE) EXCEPT !.g.tfault = "raised"], i, kind, NoTask),
            conn, mon)

BuzzTimer == \E i \in {1, 2} : TimerStep(i, "b")

AnswerTimer == \E i \in {1, 2} : TimerStep(i, "a")

\* a timeout task that survived its cancellation goes on
ZombieStep(z) ==
  /\ z \in zombies
  /\ MayRun
  /\ RanAhead
  /\ \E sus \in BOOLEAN :
       \E r \in {Run(World(Other, 0, sus), z.k)} :
         Commit([r.w EXCEPT !.zs = (@ \ {z}) \cup
                              (IF r.k = <<>> THEN {}
                               ELSE {[z EXCEPT !.k = r.k, !.at = r.at]})],
                conn, mon)

\* ---- AudioManager.process_audio_queue and the clock

\* a consumer that takes the next clip while it is still waiting
ConsumerPlay_eager ==
  /\ NoNewTask
  /\ am.queue # <<>>
  /\ am.next <= MaxClips
  /\ am' = [am EXCEPT !.queue = Tail(@), !.playing = am.next, !.next = @ + 1,
                       !.kinds = Append(@, Head(am.queue)), !.wait = 0]
  /\ UNCHANGED <<gs, bm, gsm, conn, mon, spawned, zombies, ahead, net, g>>

\* audio_queue.pop(0), a new playback id, play_audio
ConsumerPlay ==
  /\ NoNewTask
  /\ am.queue # <<>>
  /\ am.playing = 0
  /\ am.next <= MaxClips
  /\ am' = [am EXCEPT !.queue = Tail(@), !.playing = am.next, !.next = @ + 1,
                       !.kinds = Append(@, Head(am.queue)), !.wait = 0]
  /\ UNCHANGED <<gs, bm, gsm, conn, mon, spawned, zombies, ahead, net, g>>

\* one turn of the wait loop: check_audio_completed says no, asyncio.sleep(1)
ConsumerPoll ==
  /\ NoNewTask
  /\ am.playing # 0
  /\ am.playing \notin gs.completed
  /\ am.wait < max_wait_time
  /\ am' = [am EXCEPT !.wait = @ + 1]
  /\ UNCHANGED <<gs, bm, gsm, conn, mon, spawned, zombies, ahead, net, g>>

\* a wait loop that starts over instead of ending
ConsumerExpire_again ==
  /\ NoNewTask
  /\ am.playing # 0
  /\ am.wait >= max_wait_time
  /\ am' = [am EXCEPT !.wait = 0]
  /\ UNCHANGED <<gs, bm, gsm, conn, mon, spawned, zombies, ahead, net, g>>

\* the wait loop ends with wait_time = max_wait_time
ConsumerExpire ==
  /\ NoNewTask
  /\ am.playing # 0
  /\ am.wait >= max_wait_time
  /\ am' = [am EXCEPT !.playing = 0, !.wait = 0, !.late = @ \cup {am.playing},
                       !.recent_now = FALSE]
  /\ UNCHANGED <<gs, bm, gsm, conn, mon, spawned, zombies, ahead, net, g>>

\* check_audio_completed says yes
ConsumerDone ==
  /\ NoNewTask
  /\ am.playing # 0
  /\ am.playing \in gs.completed
  /\ am' = [am EXCEPT !.playing = 0, !.wait = 0]
  /\ UNCHANGED <<gs, bm, gsm, conn, mon, spawned, zombies, ahead, net, g>>

\* the 30 turns of the wait loop in one step: no report came in 30 seconds
ConsumerTimeout ==
  /\ NoNewTask
  /\ am.playing # 0
  /\ am.playing \notin gs.completed
  /\ am' = [am EXCEPT !.playing = 0, !.late = @ \cup {am.playing}, !.recent_now = FALSE]
  /\ UNCHANGED <<gs, bm, gsm, conn, mon, spawned, zombies, ahead, net, g>>

SecondPasses ==
  /\ am.recent_now
  /\ am' = [am EXCEPT !.recent_now = FALSE]
  /\ UNCHANGED <<gs, bm, gsm, conn, mon, spawned, zombies, ahead, net, g>>

Next ==
  \/ \E p \in Players : Register(p)
  \/ RegisterGuest
  \/ SelectBoard
  \/ \E c \in Clues \cup {BadClue} : DisplayQuestion(c)
  \/ \E c \in Clues \cup {BadClue} : DisplayDailyDouble(c)
  \/ \E p \in Players : Buzz(p)
  \/ \E b \in BOOLEAN, p \in Players \cup {None} : Answer(b, p)
  \/ Dismiss
  \/ \E p \in Players : DailyDoubleBet(p)
  \/ \E p \in Players : Chat(p)
  \/ \E c \in Conns, id \in 1..MaxClips : AudioComplete(c, id)
  \/ \E c \in Conns : ConnResume(c)
  \/ Tick
  \/ MonResume
  \/ \E j \in 1..Len(spawned) : TaskStep(j)
  \/ BuzzTimer
  \/ AnswerTimer
  \/ \E z \in zombies : ZombieStep(z)
  \/ ConsumerPlay
  \/ ConsumerDone
  \/ ConsumerTimeout
  \/ SecondPasses

Spec == Init /\ [][Next]_vars

\* ---- the game once the lobby is over: the three players are registered,
\* the host has generated and selected the board, started the game and given
\* the first player control; the welcome clip was played and reported
gsGame == [gs0 EXCEPT !.reg = <<"p1", "p2", "p3">>, !.ready = TRUE, !.board = TRUE,
                      !.completed = {1}]

bmGame == <<[bm0 EXCEPT !.processed = {1}], bm0>>

gsmGame == [gsm0 EXCEPT !.started = TRUE, !.welcome = TRUE, !.genstarted = TRUE,
                        !.names = Players, !.control = "p1"]

amGame == [am0 EXCEPT !.next = 2, !.kinds = <<"welcome">>]

Left(d, b, a, x, w, c, m) == [d |-> d, b |-> b, a |-> a, x |-> x, w |-> w, c |-> c, m |-> m]

InitGame ==
  /\ gs = gsGame
  /\ bm = bmGame
  /\ gsm = gsmGame
  /\ am = amGame
  /\ conn = [c \in Conns |-> Idle]
  /\ mon = Idle
  /\ spawned = <<>>
  /\ zombies = {}
  /\ ahead = FALSE
  /\ net \in {"fast", "slow"}
  /\ g = [g0 EXCEPT !.left = Left(0, 0, 0, 0, 0, 1, 1)]

NextGame ==
  \/ \E p \in Players : Buzz(p)
  \/ \E p \in Players : Chat(p)
  \/ \E id \in 1..MaxClips : AudioComplete(Admin, id)
  \/ \E c \in Conns : ConnResume(c)
  \/ Tick
  \/ MonResume
  \/ \E j \in 1..Len(spawned) : TaskStep(j)
  \/ BuzzTimer
  \/ AnswerTimer
  \/ \E z \in zombies : ZombieStep(z)
  \/ ConsumerPlay
  \/ ConsumerDone
  \/ ConsumerTimeout
  \/ SecondPasses

SpecGame == InitGame /\ [][NextGame]_vars

\* ---- the game has just started: the welcome clip was played and reported
\* while the board was generated, the "game is starting" clip is in the queue
\* (the message that gives p1 control came in the same second: no clip)
amStart == [amGame EXCEPT !.queue = <<"start">>]

InitClue ==
  /\ gs = gsGame
  /\ bm = bmGame
  /\ gsm = gsmGame
  /\ am = amStart
  /\ conn = [c \in Conns |-> Idle]
  /\ mon = Idle
  /\ spawned = <<>>
  /\ zombies = {}
  /\ ahead = FALSE
  /\ net = "fast"
  /\ g = [g0 EXCEPT !.left = Left(0, ClueBuzzes, 0, 0, 0, ClueChats, ClueCompletions)]

ClueReached ==
  /\ gs = gsGame
  /\ bm = bmGame
  /\ gsm = gsmGame
  /\ am = amStart
  /\ spawned = <<>>
  /\ zombies = {}
  /\ mon = Idle
  /\ \A c \in Conns : conn[c] = Idle

\* ---- a clue is open: the player in control has chosen clue 1 in the chat,
\* the host has read it out, the clip was reported and the buzzer went on
gsOpen == [gsGame EXCEPT !.used = {1}, !.cq = 1, !.val = ClueValue(1), !.active = TRUE,
                         !.completed = {1, 2}]

bmOpen == <<[bm0 EXCEPT !.processed = {1, 2}, !.active = TRUE,
                        !.btask = [k |-> <<OpI("handle_timeout", 1)>>, at |-> "sleep",
                                   n |-> 0]],
            bm0>>

gsmOpen == [gsmGame EXCEPT !.cq = 1, !.read = {ClueText(1)}, !.active = TRUE]

amOpen == [am0 EXCEPT !.next = 3, !.kinds = <<"welcome", "question">>]

InitOpen ==
  /\ gs = gsOpen
  /\ bm = bmOpen
  /\ gsm = gsmOpen
  /\ am = amOpen
  /\ conn = [c \in Conns |-> Idle]
  /\ mon = Idle
  /\ spawned = <<>>
  /\ zombies = {}
  /\ ahead = FALSE
  /\ net = "slow"
  /\ g = [g0 EXCEPT !.left = Left(0, OpenBuzzes, 0, 0, 0, OpenChats, 0)]

OpenReached ==
  /\ gs = gsOpen
  /\ bm = bmOpen
  /\ gsm = gsmOpen
  /\ am = amOpen
  /\ spawned = <<>>
  /\ zombies = {}
  /\ mon = Idle
  /\ \A c \in Conns : conn[c] = Idle

\* the players buzz and answer in the chat
NextOpen ==
  \/ \E p \in Players : Buzz(p)
  \/ \E p \in Players : Chat(p)
  \/ \E c \in Conns : ConnResume(c)
  \/ Tick
  \/ MonResume
  \/ \E j \in 1..Len(spawned) : TaskStep(j)
  \/ BuzzTimer
  \/ AnswerTimer
  \/ \E z \in zombies : ZombieStep(z)

SpecOpen == InitOpen /\ [][NextOpen]_vars

\* the same with the clips played and reported
InitAudio ==
  /\ gs = gsOpen
  /\ bm = bmOpen
  /\ gsm = gsmOpen
  /\ am = amOpen
  /\ conn = [c \in Conns |-> Idle]
  /\ mon = Idle
  /\ spawned = <<>>
  /\ zombies = {}
  /\ ahead = FALSE
  /\ net = "fast"
  /\ g = [g0 EXCEPT !.left = Left(0, AudioBuzzes, 0, 0, 0, AudioChats, AudioCompletions)]

\* a fast network: no process is ever suspended inside a broadcast
NextAudio ==
  \/ \E p \in Players : Buzz(p)
  \/ \E p \in Players : Chat(p)
  \/ \E id \in 1..MaxClips : AudioComplete(Admin, id)
  \/ \E c \in Conns : ConnResume(c)
  \/ Tick
  \/ \E j \in 1..Len(spawned) : TaskStep(j)
  \/ BuzzTimer
  \/ AnswerTimer
  \/ ConsumerPlay
  \/ ConsumerDone
  \/ ConsumerTimeout
  \/ SecondPasses

SpecAudio == InitAudio /\ [][NextAudio]_vars

SpecClue == InitClue /\ [][NextAudio]_vars

\* ---- the lobby: the players and a fourth name register while the host's
\* loop runs
NextLobby ==
  \/ \E p \in Players : Register(p)
  \/ RegisterGuest
  \/ \E c \in Conns : ConnResume(c)
  \/ Tick
  \/ MonResume
  \/ ConsumerPlay
  \/ ConsumerTimeout
  \/ SecondPasses

SpecLobby == Init /\ [][NextLobby]_vars

\* ---- the lobby with an administrator who asks for a clue before the game
\* is ready or before a board is loaded
IdleDisplays == 1

InitIdle ==
  /\ gs = gs0
  /\ bm = <<bm0, bm0>>
  /\ gsm = gsm0
  /\ am = am0
  /\ conn = [c \in Conns |-> Idle]
  /\ mon = Idle
  /\ spawned = <<>>
  /\ zombies = {}
  /\ ahead = FALSE
  /\ net \in {"fast", "slow"}
  /\ g = [g0 EXCEPT !.left = Left(IdleDisplays, 0, 0, 0, 0, 0, 0)]

NextIdle ==
  \/ \E p \in Players : Register(p)
  \/ \E c \in Clues \cup {BadClue} : DisplayQuestion(c)
  \/ \E c \in Conns : ConnResume(c)
  \/ Tick
  \/ MonResume
  \/ \E j \in 1..Len(spawned) : TaskStep(j)
  \/ BuzzTimer
  \/ ConsumerPlay
  \/ ConsumerTimeout
  \/ SecondPasses

SpecIdle == InitIdle /\ [][NextIdle]_vars

\* ---- the started game on slow sockets, with one exception in a tick and
\* one in a timeout callback
FaultDisplays == 1
FaultBuzzes == 1

InitFault ==
  /\ gs = gsGame
  /\ bm = bmGame
  /\ gsm = gsmGame
  /\ am = amGame
  /\ conn = [c \in Conns |-> Idle]
  /\ mon = Idle
  /\ spawned = <<>>
  /\ zombies = {}
  /\ ahead = FALSE
  /\ net = "slow"
  /\ g = [g0 EXCEPT !.left = Left(FaultDisplays, FaultBuzzes, 0, 0, 0, 0, 0)]

NextFault ==
  \/ \E c \in Clues : DisplayQuestion(c)
  \/ \E p \in Players : Buzz(p)
  \/ \E c \in Conns : ConnResume(c)
  \/ Tick
  \/ MonResume
  \/ MonRaise
  \/ \E j \in 1..Len(spawned) : TaskStep(j)
  \/ BuzzTimer
  \/ AnswerTimer
  \/ \E i \in {1, 2}, kind \in {"a", "b"} : TimerRaise(i, kind)
  \/ \E z \in zombies : ZombieStep(z)

\* asyncio runs every task that is ready, and the sleep of one second between
\* two ticks ends
SpecFault ==
  /\ InitFault /\ [][NextFault]_vars
  /\ WF_vars(Tick)
  /\ WF_vars(MonResume)
  /\ WF_vars(\E j \in 1..Len(spawned) : TaskStep(j))

\* ---- the administrator runs a question while the host has not yet started
\* the game: nobody has control
UnledDisplays == 1
UnledAnswers == 3

InitUnled ==
  /\ gs = gs0
  /\ bm = <<bm0, bm0>>
  /\ gsm = gsm0
  /\ am = am0
  /\ conn = [c \in Conns |-> Idle]
  /\ mon = Idle
  /\ spawned = <<>>
  /\ zombies = {}
  /\ ahead = FALSE
  /\ net = "fast"
  /\ g = [g0 EXCEPT !.left = Left(UnledDisplays, 0, UnledAnswers, 0, 0, 0, 0)]

NextUnled ==
  \/ \E p \in Players : Register(p)
  \/ SelectBoard
  \/ \E c \in Clues : DisplayQuestion(c)
  \/ \E p \in Players : Answer(FALSE, p)
  \/ Tick
  \/ MonResume
  \/ \E j \in 1..Len(spawned) : TaskStep(j)
  \/ BuzzTimer
  \/ ConsumerPlay
  \/ ConsumerTimeout
  \/ SecondPasses

SpecUnled == InitUnled /\ [][NextUnled]_vars

\* ---- a daily double of the started game: selected over the daily_double
\* topic, narrated by the host, wagered on
DoubleDisplays == 1
DoubleBuzzes == 1
DoubleBets == 1
DoubleCompletions == 1

InitDouble ==
  /\ gs = gsGame
  /\ bm = bmGame
  /\ gsm = gsmGame
  /\ am = amGame
  /\ conn = [c \in Conns |-> Idle]
  /\ mon = Idle
  /\ spawned = <<>>
  /\ zombies = {}
  /\ ahead = FALSE
  /\ net = "fast"
  /\ g = [g0 EXCEPT !.left = Left(DoubleDisplays, DoubleBuzzes, 0, 0, DoubleBets, 0,
                                   DoubleCompletions)]

NextDouble ==
  \/ \E c \in {c \in Clues : DailyDouble(c)} : DisplayDailyDouble(c)
  \/ \E p \in Players : DailyDoubleBet(p)
  \/ \E p \in Players : Buzz(p)
  \/ \E id \in 1..MaxClips : AudioComplete(Admin, id)
  \/ Tick
  \/ \E j \in 1..Len(spawned) : TaskStep(j)
  \/ BuzzTimer
  \/ AnswerTimer
  \/ ConsumerPlay
  \/ ConsumerDone
  \/ ConsumerTimeout
  \/ SecondPasses

SpecDouble == InitDouble /\ [][NextDouble]_vars

\* ---- a buzz on a regular clue is left unanswered, the clue is dismissed and
\* the daily double is selected and wagered on by the same player
StaleDisplays == 2
StaleBuzzes == 1
StaleDismissals == 1
StaleBets == 1

InitStale ==
  /\ gs = gsGame
  /\ bm = bmGame
  /\ gsm = gsmGame
  /\ am = amGame
  /\ conn = [c \in Conns |-> Idle]
  /\ mon = Idle
  /\ spawned = <<>>
  /\ zombies = {}
  /\ ahead = FALSE
  /\ net = "fast"
  /\ g = [g0 EXCEPT !.left = Left(StaleDisplays, StaleBuzzes, 0, StaleDismissals,
                                   StaleBets, 0, 0)]

\* the players buzz on the regular clue only
NextStale ==
  \/ \E c \in {c \in Clues : ~DailyDouble(c)} : DisplayQuestion(c)
  \/ \E c \in {c \in Clues : DailyDouble(c)} : DisplayDailyDouble(c)
  \/ \E p \in Players : (gs.cq # NoQ /\ ~DailyDouble(gs.cq) /\ Buzz(p))
  \/ Dismiss
  \/ \E p \in Players : DailyDoubleBet(p)
  \/ Tick
  \/ \E j \in 1..Len(spawned) : TaskStep(j)
  \/ BuzzTimer
  \/ AnswerTimer
  \/ ConsumerPlay
  \/ ConsumerTimeout
  \/ SecondPasses

SpecStale == InitStale /\ [][NextStale]_vars

\* ---- one clue of the started game runs its course: a player may buzz, the
\* administrator may judge the answer incorrect, and the clients report every
\* clip they played
StuckDisplays == 1
StuckBuzzes == 1
StuckAnswers == 1
StuckCompletions == 4

InitStuck ==
  /\ gs = gsGame
  /\ bm = bmGame
  /\ gsm = gsmGame
  /\ am = amGame
  /\ conn = [c \in Conns |-> Idle]
  /\ mon = Idle
  /\ spawned = <<>>
  /\ zombies = {}
  /\ ahead = FALSE
  /\ net = "fast"
  /\ g = [g0 EXCEPT !.left = Left(StuckDisplays, StuckBuzzes, StuckAnswers, 0, 0, 0,
                                   StuckCompletions)]

NextStuck ==
  \/ \E c \in {c \in Clues : ~DailyDouble(c)} : DisplayQuestion(c)
  \/ \E p \in Players : Buzz(p)
  \/ \E p \in Players \cup {None} : Answer(FALSE, p)
  \/ \E id \in 1..MaxClips : AudioComplete(Admin, id)
  \/ Tick
  \/ \E j \in 1..Len(spawned) : TaskStep(j)
  \/ BuzzTimer
  \/ AnswerTimer
  \/ ConsumerPlay
  \/ ConsumerDone
  \/ ConsumerTimeout
  \/ SecondPasses

\* asyncio runs every task that is ready, every sleep ends, the consumer of
\* the audio queue goes on, and a client reports the clip it is playing
SpecStuck ==
  /\ InitStuck /\ [][NextStuck]_vars
  /\ WF_vars(Tick)
  /\ WF_vars(\E j \in 1..Len(spawned) : TaskStep(j))
  /\ WF_vars(BuzzTimer)
  /\ WF_vars(AnswerTimer)
  /\ WF_vars(ConsumerPlay)
  /\ WF_vars(ConsumerDone)
  /\ WF_vars(SecondPasses)
  /\ WF_vars(\E id \in 1..MaxClips : AudioComplete(Admin, id))

\* ---- the administrator shows and dismisses clues of the started game
InitBoard ==
  /\ gs = gsGame
  /\ bm = bmGame
  /\ gsm = gsmGame
  /\ am = amGame
  /\ conn = [c \in Conns |-> Idle]
  /\ mon = Idle
  /\ spawned = <<>>
  /\ zombies = {}
  /\ ahead = FALSE
  /\ net = "fast"
  /\ g = [g0 EXCEPT !.left = Left(BoardDisplays, 0, 0, BoardDismissals, 0, 0,
                                   BoardCompletions)]

NextBoard ==
  \/ \E c \in Clues \cup {BadClue} : DisplayQuestion(c)
  \/ Dismiss
  \/ \E id \in 1..MaxClips : AudioComplete(Admin, id)
  \/ Tick
  \/ \E j \in 1..Len(spawned) : TaskStep(j)
  \/ BuzzTimer
  \/ ConsumerPlay
  \/ ConsumerDone
  \/ ConsumerTimeout
  \/ SecondPasses

SpecBoard == InitBoard /\ [][NextBoard]_vars

\* ---- synthesize_and_play_speech with the clock and the file names spelled
\* out.  In the specifications of the game am.recent_now stands for
\* "FileName(now) is among the recent file names".
Texts == {"clue", "prompt"}

\* filename = f"question_audio_{int(time.time())}.wav"
FileName(t) == <<"question_audio", t, "wav">>

\* sorted(names)[:n]: the names of the n earliest seconds
Oldest(names, n) == {x \in names : Cardinality({y \in names : y[2] < x[2]}) < n}

\* am.files[t] is the text spoken in the file of second t, am.last the
\* outcome of the last call, am.calls the number of calls
synthesize_named(a, text) ==
  LET name == FileName(a.now)
      r1 == a.recent \cup {name}
      r2 == IF Cardinality(r1) > RECENT_LIMIT THEN r1 \ Oldest(r1, RECENT_DROPPED) ELSE r1
  IN IF name \in a.recent
     THEN [a EXCEPT !.calls = @ + 1, !.last = [text |-> text, skipped |-> TRUE]]
     ELSE [a EXCEPT !.calls = @ + 1, !.last = [text |-> text, skipped |-> FALSE],
                    !.recent = r2,
                    !.files = [@ EXCEPT ![a.now] = text],
                    !.queue = IF name \in Range(@) THEN @ ELSE Append(@, name)]

\* a host that has spoken in each of the seconds 1..k
amSpoken(k) ==
  [queue |-> <<>>, recent |-> {FileName(t) : t \in 1..k}, now |-> k + 1,
   files |-> [t \in 1..(RECENT_LIMIT + MaxSeconds) |-> IF t <= k THEN "welcome" ELSE "none"],
   last |-> [text |-> "welcome", skipped |-> FALSE], calls |-> 0]

InitSpeech ==
  /\ gs = gs0
  /\ bm = <<bm0, bm0>>
  /\ gsm = gsm0
  /\ \E k \in (RECENT_LIMIT - MaxSeconds)..(RECENT_LIMIT - 1) : am = amSpoken(k)
  /\ conn = [c \in Conns |-> Idle]
  /\ mon = Idle
  /\ spawned = <<>>
  /\ zombies = {}
  /\ ahead = FALSE
  /\ net = "fast"
  /\ g = g0

Speak(text) ==
  /\ am.calls < SpeechCalls
  /\ am' = synthesize_named(am, text)
  /\ UNCHANGED <<gs, bm, gsm, conn, mon, spawned, zombies, ahead, net, g>>

\* time.time() reaches the next second
ClockSecond ==
  /\ am.now < RECENT_LIMIT + MaxSeconds
  /\ am' = [am EXCEPT !.now = @ + 1]
  /\ UNCHANGED <<gs, bm, gsm, conn, mon, spawned, zombies, ahead, net, g>>

\* audio_queue.pop(0)
TakeClip ==
  /\ am.queue # <<>>
  /\ am' = [am EXCEPT !.queue = Tail(@)]
  /\ UNCHANGED <<gs, bm, gsm, conn, mon, spawned, zombies, ahead, net, g>>

NextSpeech ==
  \/ \E text \in Texts : Speak(text)
  \/ ClockSecond
  \/ TakeClip

SpecSpeech == InitSpeech /\ [][NextSpeech]_vars

\* ---- the consumer of the audio queue with its wait loop turn by turn
InitConsumer ==
  /\ gs = gsOpen
  /\ bm = bmOpen
  /\ gsm = gsmOpen
  /\ am = amOpen
  /\ conn = [c \in Conns |-> Idle]
  /\ mon = Idle
  /\ spawned = <<>>
  /\ zombies = {}
  /\ ahead = FALSE
  /\ net = "fast"
  /\ g = [g0 EXCEPT !.left = Left(0, ConsumerBuzzes, 0, 0, 0, ConsumerChats,
                                   ConsumerCompletions)]

NextConsumer ==
  \/ \E p \in Players : Buzz(p)
  \/ \E p \in Players : Chat(p)
  \/ \E id \in 1..MaxClips : AudioComplete(Admin, id)
  \/ \E c \in Conns : ConnResume(c)
  \/ Tick
  \/ \E j \in 1..Len(spawned) : TaskStep(j)
  \/ BuzzTimer
  \/ AnswerTimer
  \/ ConsumerPlay
  \/ ConsumerDone
  \/ ConsumerPoll
  \/ ConsumerExpire
  \/ SecondPasses

SpecConsumer == InitConsumer /\ [][NextConsumer]_vars

\* The event loop runs every task that is ready and every sleep of the
\* consumer ends: the steps of the consumer and of the tasks created by
\* create_task are taken when they stay possible.
SpecConsumerFair ==
  /\ InitConsumer
  /\ [][NextConsumer]_vars
  /\ WF_vars(ConsumerPlay)
  /\ WF_vars(ConsumerDone)
  /\ WF_vars(ConsumerPoll)
  /\ WF_vars(ConsumerExpire)
  /\ WF_vars(\E j \in 1..Len(spawned) : TaskStep(j))

\* ---- the same with slow sockets, between two ticks of the reconciliation
\* loop: one buzz and one chat line of the player in control, one report of
\* a clip
InitRace ==
  /\ gs = gsOpen
  /\ bm = bmOpen
  /\ gsm = gsmOpen
  /\ am = amOpen
  /\ conn = [c \in Conns |-> Idle]
  /\ mon = Idle
  /\ spawned = <<>>
  /\ zombies = {}
  /\ ahead = FALSE
  /\ net = "slow"
  /\ g = [g0 EXCEPT !.left = Left(0, RaceBuzzes, 0, 0, 0, RaceChats, RaceCompletions)]

NextRace ==
  \/ Buzz(gsmOpen.control)
  \/ Chat(gsmOpen.control)
  \/ \E id \in 1..MaxClips : AudioComplete(Admin, id)
  \/ \E c \in Conns : ConnResume(c)
  \/ \E j \in 1..Len(spawned) : TaskStep(j)
  \/ BuzzTimer
  \/ AnswerTimer
  \/ \E z \in zombies : ZombieStep(z)
  \/ ConsumerPlay
  \/ ConsumerDone
  \/ ConsumerTimeout
  \/ SecondPasses

SpecRace == InitRace /\ [][NextRace]_vars

\* ---- far into a long game: 100 clips were played and reported.  Clue 1 is
\* open, p1 has buzzed and answered wrongly in the chat, and the clip that
\* tells p1 so is playing
gsLong == [gsOpen EXCEPT !.score["p1"] = 0 - ClueValue(1), !.active = FALSE,
                         !.completed = 1..LongClips]

bmLong == <<[bm0 EXCEPT !.processed = 1..LongClips, !.incorrect = {"p1"},
                        !.expecting = TRUE], bm0>>

gsmLong == [gsmOpen EXCEPT !.active = FALSE, !.incorrect = {"p1"}, !.gs_incorrect = {"p1"}]

amLong == [am0 EXCEPT !.playing = LongClips + 1, !.next = LongClips + 2,
                      !.kinds = [j \in 1..(LongClips + 1) |->
                                   IF j = LongClips + 1 THEN "incorrect" ELSE "question"]]

InitLong ==
  /\ gs = gsLong
  /\ bm = bmLong
  /\ gsm = gsmLong
  /\ am = amLong
  /\ conn = [c \in Conns |-> Idle]
  /\ mon = Idle
  /\ spawned = <<>>
  /\ zombies = {}
  /\ ahead = FALSE
  /\ net = "fast"
  /\ g = [g0 EXCEPT !.ci = "p1", !.sent = MaxSent,
                     !.left = Left(0, LongBuzzes, 0, 0, 0, LongChats, LongCompletions)]

NextLong ==
  \/ \E p \in Players : Buzz(p)
  \/ \E p \in Players : Chat(p)
  \/ AudioComplete(Admin, LongClips + 1)
  \/ \E c \in Conns : ConnResume(c)
  \/ Tick
  \/ \E j \in 1..Len(spawned) : TaskStep(j)
  \/ BuzzTimer
  \/ AnswerTimer
  \/ ConsumerDone
  \/ ConsumerTimeout
  \/ SecondPasses

SpecLong == InitLong /\ [][NextLong]_vars

\* ---- late in a clue: p1 and then p2 have buzzed and answered wrongly in the
\* chat, their clips were played and reported, and the buzzer is on again
gsLate == [gsOpen EXCEPT !.score = [p \in Players \cup {Guest} |-> IF p \in {"p3", Guest} THEN 0 ELSE 0 - ClueValue(1)],
                         !.completed = {1, 2, 3, 4}]

bmLate == <<[bmOpen[1] EXCEPT !.processed = {1, 2, 3, 4}, !.incorrect = {"p1", "p2"}], bm0>>

gsmLate == [gsmOpen EXCEPT !.incorrect = {"p1", "p2"}, !.gs_incorrect = {"p1", "p2"}]

amLate == [am0 EXCEPT !.next = 5, !.kinds = <<"welcome", "question", "incorrect", "incorrect">>]

gLate == [g0 EXCEPT !.ci = "p2", !.sent = MaxSent, !.wrong = {"p1", "p2"}]

LateReached ==
  /\ gs = gsLate
  /\ bm = bmLate
  /\ gsm = gsmLate
  /\ am = amLate
  /\ spawned = <<>>
  /\ zombies = {}
  /\ mon = Idle
  /\ \A c \in Conns : conn[c] = Idle
  /\ [g EXCEPT !.left = g0.left] = gLate

InitLate ==
  /\ gs = gsLate
  /\ bm = bmLate
  /\ gsm = gsmLate
  /\ am = amLate
  /\ conn = [c \in Conns |-> Idle]
  /\ mon = Idle
  /\ spawned = <<>>
  /\ zombies = {}
  /\ ahead = FALSE
  /\ net = "fast"
  /\ g = [gLate EXCEPT !.left = Left(0, LateBuzzes, 0, 0, 0, LateChats, LateCompletions)]

SpecLate == InitLate /\ [][NextAudio]_vars

\* ---------------------------------------------------------------- claims

\* the timeout tasks that are still running, referenced or not
LiveTimers(kind) ==
  Cardinality({i \in {1, 2} : Slot(World(Other, 0, TRUE), i, kind) # NoTask})
    + Cardinality({z \in zombies : z.kind = kind})

\* C1: a buzz handled while GameService.buzzer_active is false changes
\* nothing: no last_buzzer, mirror, flag, incorrect set, timeout task or
\* audio state changes, no process is left suspended, and neither the buzz
\* nor the answer_timer_start broadcast is sent.
C1_RejectedBuzzChangesNothing ==
  [][(g'.left.b = g.left.b - 1 /\ ~gs.active)
       => (UNCHANGED <<gs, bm, gsm, am, conn, mon, spawned, zombies>>
           /\ g'.sent = g.sent /\ g'.accepted = g.accepted)]_vars

\* a buzz was handled to its end while the buzzer was off
C1_Witness ==
  /\ g.left.b < OpenBuzzes
  /\ g.sent = 0
  /\ ~gs.active
  /\ \A c \in Conns : conn[c] = Idle

\* C11: an answer timeout that expires for a player who no longer holds the
\* buzz, or with no question current, does nothing: no chat message, clip or
\* answer broadcast, no change of the incorrect sets, the flags, a score or a
\* timer; the task just ends (am changes only in that the second in which
\* the last clip was requested is over when the 7 seconds of the timer are).
C11_StaleAnswerTimeoutIsNoOp ==
  [][g'.stale # g.stale =>
       /\ UNCHANGED <<gs, gsm, conn, mon, spawned, zombies>>
       /\ [am' EXCEPT !.recent_now = am.recent_now] = am
       /\ g' = [g EXCEPT !.stale = ~@]
       /\ \E i \in {1, 2} : bm' = [bm EXCEPT ![i].atask = NoTask]]_vars

\* an answer timeout has expired for a player who no longer held the buzz
C11_Witness == g.stale

\* C12: the step in which handle_incorrect_answer(P) has run, called by the
\* expiry of the answer timeout (g.tres becomes P) or after a chat answer
\* judged incorrect (g.ci becomes P), leaves no answer timeout in its slot, P
\* in the incorrect set and the buzzed player null in every view.
C12_IncorrectAnswerClearsBuzz ==
  [][\A p \in Players :
       ((g'.tres = p /\ g.tres # p) \/ (g'.ci = p /\ g.ci # p))
         => /\ p \in bm'[1].incorrect
            /\ bm'[1].atask = NoTask
            /\ bm'[1].last = None /\ gs'.last = None /\ gsm'.buzzed = None]_vars

\* the report of clip id is handled in this step and the buzzer goes on
Activates(id) ==
  /\ id \in bm'[1].processed \ bm[1].processed
  /\ ~gs.active
  /\ gs'.active

\* C13: while expecting_reactivation is armed only the completion of the
\* narration of the incorrect answer (the "that's incorrect" or the "time's
\* up" clip) activates the buzzer; the completion of any other clip does not.
C13_OnlyIncorrectNarrationReactivates ==
  [][\A id \in 1..MaxClips :
       (Activates(id) /\ bm[1].expecting)
         => am.kinds[id] \in {"incorrect", "timeup"}]_vars

\* C14: with no reactivation pending, the completion of a clip activates the
\* buzzer only if the clip is a question narration, a question is current and
\* nobody has buzzed.
C14_OnlyQuestionNarrationActivates ==
  [][\A id \in 1..MaxClips :
       (Activates(id) /\ ~bm[1].expecting)
         => (am.kinds[id] = "question" /\ gs.cq # NoQ /\ gs.last = None)]_vars

\* the task that mark_audio_completed made for the id is run in this step
SecondDispatch ==
  \E j \in 1..Len(spawned) :
    /\ spawned[j].at = "new"
    /\ Head(spawned[j].k).op = "handle_audio_completed"
    /\ spawned' = Without(spawned, j)

\* C15: an id is consumed at most once: the task that mark_audio_completed
\* schedules for an id, which GameService.handle_audio_completed has already
\* handled by its direct call, activates no buzzer, dismisses nothing and
\* changes no flag or set.
C15_SecondDispatchDoesNothing ==
  [][SecondDispatch => UNCHANGED <<gs, bm, gsm, am, conn, mon, zombies, g>>]_vars

\* the playback ids issued whose report is not recorded and whose wait has
\* not expired
InFlight == {id \in 1..(am.next - 1) : id \notin gs.completed /\ id \notin am.late}

\* C16: the consumer never has two clips in flight (it requests the next one
\* only when the report of the last id is recorded or its wait of 30 seconds
\* has expired), and the queue is first in, first out: a step appends to it
\* or the consumer takes its head.
C16_OneClipInFlight ==
  /\ [](Cardinality(InFlight) <= 1)
  /\ [][\/ am'.queue = am.queue
        \/ /\ Len(am'.queue) > Len(am.queue)
           /\ SubSeq(am'.queue, 1, Len(am.queue)) = am.queue
           /\ am'.kinds = am.kinds
        \/ /\ am.queue # <<>>
           /\ am'.queue = Tail(am.queue)
           /\ am'.kinds = Append(am.kinds, Head(am.queue))]_vars

\* a clip was taken after the wait for the one before it had expired, with
\* another clip behind it in the queue
C16_Witness ==
  /\ am.playing # 0
  /\ am.late # {}
  /\ am.queue # <<>>

\* C17: a call of synthesize_and_play_speech is suppressed exactly when a
\* request with the same text is among the recent ones, and the set of
\* recent requests never holds more than 20 entries.
C17_SuppressedIffIdenticalRecent ==
  /\ [](Cardinality(am.recent) <= RECENT_LIMIT)
  /\ [][am'.calls # am.calls =>
          (am'.last.skipped <=> \E name \in am.recent : am.files[name[2]] = am'.last.text)]_vars

\* C18: the consumer always comes out of its wait for a clip (after 30
\* seconds when no report arrives) and, with the event loop running it,
\* every clip placed in the queue is eventually sent for playback: the n-th
\* clip ever queued becomes the n-th clip played.
C18_EveryClipIsSent ==
  /\ (am.playing # 0) ~> (am.playing = 0)
  /\ \A n \in 1..MaxClips :
        (Len(am.kinds) + Len(am.queue) >= n) ~> (Len(am.kinds) >= n)

\* the consumer gave up waiting for a clip and has sent the one queued
\* behind it
C18_Witness ==
  /\ am.playing # 0
  /\ am.playing - 1 \in am.late
  /\ am.wait > 0

\* C19: for the question that is current, the loop has requested the
\* narration at most once, and exactly once as soon as a tick has observed
\* the question present (also when its text was narrated before, also when
\* it replaced another question between two ticks).
C19_NarratedExactlyOnce ==
  /\ g.narr <= 1
  /\ g.seen => g.narr = 1

C21_GenerationAfterCountdown == ~g.hasty

\* C21: the generation of the board starts once, in the tick that welcomes
\* the players, straight after the welcome and with the quota of players
\* registered; no countdown is waited for.
C21_GenerationFollowsWelcome ==
  /\ g.gen <= 1
  /\ gsm.welcome <=> g.gen = 1
  /\ g.gen = 1 => (Len(gs.reg) >= REQUIRED_PLAYERS /\ g.quota # "no")

\* the board is being generated in the tick that saw the quota reached
C21_Witness ==
  /\ g.gen = 1
  /\ g.quota = "now"
  /\ ~gsm.started
  /\ mon.k # <<>>

\* nothing is running or waiting: no handler, tick, task or timer
AtRest ==
  /\ \A c \in Conns : conn[c] = Idle
  /\ mon.k = <<>>
  /\ spawned = <<>>
  /\ zombies = {}
  /\ LiveTimers("b") = 0
  /\ LiveTimers("a") = 0

\* C22: while a buzz is held on the current question the incorrect sets of
\* the BuzzerManager and of the host's mirror hold only players who answered
\* this question incorrectly (g.wrong: they were empty when it became
\* current), and once the question is cleared in both views and everything
\* has come to rest both sets are empty.
C22_IncorrectSetsFollowQuestion ==
  /\ (gs.cq # NoQ /\ gs.last # None) =>
        (bm[1].incorrect \subseteq g.wrong /\ gsm.incorrect \subseteq g.wrong)
  /\ (gs.cq = NoQ /\ gsm.cq = NoQ /\ AtRest) =>
        (bm[1].incorrect = {} /\ gsm.incorrect = {})

\* C23: a chat message is handed to the answer judge only when a question
\* is current and its sender holds the buzz on it.
C23_OnlyTheHolderIsJudged == g.judged # "other"

\* C24: when the handler of an answer that the judge failed to evaluate (or
\* judged incorrect: the code cannot tell) reaches its end, the player is in
\* the incorrect-attempts sets and has lost the value of the question once,
\* and the step does not change who has control.
C24_FailedJudgeMeansIncorrect ==
  /\ [](g.degraded # "bad")
  /\ [][g'.ci # g.ci /\ g'.ci # None =>
          (g'.ci \in gsm'.incorrect /\ gsm'.control = gsm.control)]_vars

C27_RefusedRequestChangesNothing ==
  [][((g'.left.d < g.left.d \/ conn[Admin] # Idle) /\ (~gs.ready \/ ~gs.board))
       => /\ gs'.cq = gs.cq /\ gs'.last = gs.last /\ gs'.active = gs.active
          /\ gs'.used = gs.used
          /\ bm' = bm /\ spawned' = spawned]_vars

\* C28: an exception raised inside a tick of the reconciliation loop or
\* inside a timeout callback does not stop the system: after the exception
\* of a tick the loop begins another tick, and the exception of a callback
\* leaves its slot empty, so that the next timeout is started in it.
C28_FaultsDoNotStopTheLoop ==
  /\ (g.fault = "raised") ~> (g.fault = "resumed")
  /\ [][\A i \in {1, 2} : g'.tfault = "raised" /\ g.tfault = "no"
          => bm'[i].btask \in {NoTask, bm[i].btask} /\ bm'[i].atask \in {NoTask, bm[i].atask}]_vars

\* both exceptions happened, the loop ticked again and a later timeout ran
C28_Witness == g.fault = "resumed" /\ g.tfault = "fired"

\* C29: after any tick of the reconciliation loop the host's mirror of the
\* current question and GameService.current_question hold the same
\* question or both hold none, also when a question was dismissed and
\* another one displayed between two ticks.
C29_MirrorFollowsWithinOneTick ==
  [][Tick /\ mon' = Idle => gsm'.cq = gs'.cq]_vars

\* C30: once every registered player has answered the current question
\* incorrectly and the handlers have finished, some player has control: the
\* one who had it before, or the highest scorer if nobody had it.
C30_SomeoneHasControlAfterAllIncorrect ==
  (AtRest /\ gs.reg # <<>> /\ Range(gs.reg) \subseteq g.wrong /\ gs.cq = NoQ)
    => gsm.control # None

\* C31: while the current question is a daily double the buzzer is not
\* active, in GameService and in both buzzer managers, and no buzz has
\* been accepted.
C31_DailyDoubleBypassesBuzzing ==
  (gs.cq # NoQ /\ DailyDouble(gs.cq))
    => /\ ~gs.active /\ ~bm[1].active /\ ~bm[2].active
       /\ g.accepted = 0

\* C32: a player's score changes only in a step that resolves a buzz this
\* player holds, and then by the value of the question; and the step that
\* marks a player incorrect for the current question, by an answer or by
\* the expiry of the answer timer, takes the value off this player's score.
C32_ScoreFollowsResolvedBuzz ==
  [][\A p \in Players :
       /\ gs'.score[p] # gs.score[p]
            => /\ gs.last = p
               /\ gs'.score[p] \in {gs.score[p] + gs.val, gs.score[p] - gs.val}
       /\ (p \notin g.wrong /\ p \in g'.wrong)
            => gs'.score[p] = gs.score[p] - gs.val]_vars

\* C33: the game does not stay in the lobby with the welcome completed:
\* once the tick that welcomed the players has ended, the game is started,
\* a board is loaded and a player has control, also when the generation of
\* the custom board failed.
C33_StartedOnceWelcomed ==
  (gsm.welcome /\ mon = Idle)
    => (gsm.started /\ gs.board /\ gsm.control # None)

\* C34: whenever no handler, tick, task or timer is running or suspended,
\* buzzer_active has the same value in GameService, in its BuzzerManager
\* and in the host's mirror.
C34_OneBuzzerState ==
  AtRest => (bm[1].active = gs.active /\ gsm.active = gs.active)

\* C35: the buzz of a player who is in the incorrect set of the current
\* question does not make this player the holder of the buzz again.
C35_NoSecondBuzzAfterIncorrect ==
  [][\A p \in Players :
       (Buzz(p) /\ gs.cq # NoQ /\ p \in bm[1].incorrect /\ p \in g.wrong)
         => (bm'[1].last # p /\ g'.accepted = g.accepted)]_vars

\* C36: while the same question stays current no step removes a player
\* who was marked incorrect for it from the incorrect set, in the
\* BuzzerManager or in the host's mirror.
C36_IncorrectSetOnlyGrows ==
  [][(gs.cq # NoQ /\ gs'.cq = gs.cq /\ g.wrong \subseteq g'.wrong)
       => /\ (bm[1].incorrect \cap g.wrong) \subseteq bm'[1].incorrect
          /\ (gsm.incorrect \cap g.wrong) \subseteq gsm'.incorrect]_vars

\* C37: the buzzer is active only while a question is current, in
\* GameService and in its BuzzerManager, and no buzzer timeout is pending
\* without a question.
C37_ActiveOnlyWithQuestion ==
  /\ (gs.active \/ bm[1].active) => gs.cq # NoQ
  /\ bm[1].btask # NoTask => gs.cq # NoQ

\* C2: between one activation of the buzzer and the next at most one buzz is
\* accepted, in every interleaving of the buzz handlers: a buzz handled while
\* the first one is suspended inside handle_player_buzz is rejected.
C2_SingleWinner == g.accepted <= 1

\* the second buzz was handled while the handler of the first was suspended
C2_Witness ==
  /\ g.accepted = 1
  /\ g.left.b = 0
  /\ \E c \in Conns : conn[c].at = "bcast" /\ conn[c].k # <<>>
                        /\ conn[c].k[Len(conn[c].k)].op = "broadcast_buzz"

\* C3: once the answer timeout has resolved the buzz of player P (g.tres = P)
\* nothing that arrives later for that buzz (a verdict of the judge, a chat
\* line of P) changes P's score.
C3_ResolvedOnce ==
  [][(g.tres # None /\ g'.tres = g.tres) => gs'.score[g.tres] = gs.score[g.tres]]_vars

C5_BuzzedImpliesInactive ==
  (gs.last # None \/ bm[1].last # None \/ bm[2].last # None \/ gsm.buzzed # None)
    => ~gs.active

\* C6: at most one buzz-timeout task and at most one answer-timeout task are
\* live, counting both BuzzerManager instances and the tasks that are no
\* longer referenced.
C6_OneTimerOfEachKind == LiveTimers("b") <= 1 /\ LiveTimers("a") <= 1

\* the current question is cleared in GameService or in the host mirror
Cleared == (gs.cq # NoQ /\ gs'.cq = NoQ) \/ (gsm.cq # NoQ /\ gsm'.cq = NoQ)

\* C7: the step that clears the current question leaves the buzzed player null
\* in every view, the incorrect-attempts sets empty and no timeout task live.
C7_ClearingIsAtomic ==
  [][Cleared =>
       /\ gs'.last = None /\ bm'[1].last = None /\ bm'[2].last = None
       /\ gsm'.buzzed = None
       /\ bm'[1].incorrect = {} /\ bm'[2].incorrect = {}
       /\ gsm'.incorrect = {} /\ gsm'.gs_incorrect = {}
       /\ \A i \in {1, 2} : bm'[i].btask = NoTask /\ bm'[i].atask = NoTask
       /\ zombies' = {}]_vars

\* C8: once the chat answer of the buzzed player A was judged correct (g.cc = A)
\* and until the next question is displayed, A has control, the question is
\* cleared in GameService and in the mirror, no buzzed player is recorded and
\* the buzzer is inactive.
C8_CorrectAnswer ==
  g.cc # None =>
    /\ gsm.control = g.cc
    /\ gs.cq = NoQ /\ gsm.cq = NoQ
    /\ gsm.buzzed = None /\ gs.last = None
    /\ ~gs.active

\* C9: the step that records the first incorrect chat answer of a question
\* (player A, other players remain) leaves the incorrect-attempts set {A}, the
\* buzzed player null, expecting_reactivation armed and the buzzer inactive.
C9_IncorrectAnswer ==
  [][(g'.ci # None /\ g'.ci # g.ci /\ bm[1].incorrect \subseteq {g'.ci})
       => /\ bm'[1].incorrect = {g'.ci} /\ gsm'.incorrect = {g'.ci}
          /\ gsm'.buzzed = None /\ gs'.last = None
          /\ bm'[1].expecting
          /\ ~gs'.active]_vars

\* C38: an answer timeout armed for a buzz on one question marks nobody
\* incorrect on a later question: when every buzz was made on the regular
\* clue, nobody is marked incorrect while the daily double is current.
C38_OldTimerMarksNobody ==
  (gs.cq # NoQ /\ DailyDouble(gs.cq)) => g.wrong = {}

\* C39: when the timers fire, the audio consumer runs and the clients report
\* completions, no question stays current for ever with no accepted buzz
\* possible and no timeout pending: again and again the question is cleared,
\* or the buzzer is open, or a timeout of a BuzzerManager is pending.
C39_NoQuestionStaysForEver ==
  []<>(\/ gs.cq = NoQ
       \/ gs.active
       \/ \E i \in {1, 2} : bm[i].btask # NoTask \/ bm[i].atask # NoTask)

\* C10: a buzz timeout that has started to handle its expiry is never cut
\* short before its last statement, the prompt to select the next clue.
C10_TimeoutRunsToItsEnd == g.tmo # "aborted"
====
